---- MODULE Spec2Model ----
(***************************************************************************)
(* Semantic search and recommendation core of the AI dashboard:            *)
(*   lib/embeddings   cosineSimilarity, generateEmbeddingText              *)
(*   lib/recommender  recommendFiles                                       *)
(*   api/recommend    GET handler                                          *)
(*   api/search       GET handler                                          *)
(*                                                                         *)
(* Numbers.  Vector elements are small integers or the token NaN, which    *)
(* stands for any non-finite IEEE value (NaN, +Infinity, -Infinity).  A    *)
(* similarity is kept exactly, as sgn * sqrt(num / den) with num/den in    *)
(* lowest terms, or is NaN.  Scores of the heuristic recommender are kept  *)
(* in tenths, search scores in hundredths.                                 *)
(*                                                                         *)
(* Strings are sequences of one-character strings, so that trim,           *)
(* toLowerCase, split and includes are computed and not assumed.           *)
(***************************************************************************)
EXTENDS Integers, Sequences, FiniteSets, TLC

\* the non-finite vector element (NaN, +Infinity, -Infinity): a value no
\* computation of the model produces
NaN == 1000 * 1000

\* an optional value (null, undefined or absent against present)
None == <<>>

Some(x) == <<x>>

IsSome(o) == o # <<>>

Get(o) == o[1]

(***************************************************************************)
(* Bounds of the model.                                                    *)
(***************************************************************************)
MaxDim == 2
MaxElem == 1
MaxFiles == 7
MaxMixed == 2
MaxRows == 3
MaxWrites == 1

(***************************************************************************)
(* Generic helpers.                                                        *)
(***************************************************************************)
Min(a, b) == IF a < b THEN a ELSE b

Abs(x) == IF x < 0 THEN -x ELSE x

RECURSIVE GCD(_, _)
GCD(a, b) == IF b = 0 THEN a ELSE GCD(b, a % b)

Range(s) == {s[i] : i \in DOMAIN s}

\* Array.prototype.slice(0, n)
Slice(s, n) == SubSeq(s, 1, IF n < 0 THEN (IF Len(s) + n < 0 THEN 0 ELSE Len(s) + n)
                               ELSE Min(Len(s), n))

\* all sequences over S of length 0..n
SeqsUpTo(S, n) == UNION {[1..k -> S] : k \in 0..n}

(***************************************************************************)
(* IEEE arithmetic on integers extended with the non-finite token.         *)
(***************************************************************************)
IsFinite(x) == x # NaN

FMul(x, y) == IF x = NaN \/ y = NaN THEN NaN ELSE x * y

FAdd(x, y) == IF x = NaN \/ y = NaN THEN NaN ELSE x + y

SimZero == [nan |-> FALSE, sgn |-> 0, num |-> 0, den |-> 1]

SimNaN == [nan |-> TRUE, sgn |-> 0, num |-> 0, den |-> 1]

\* dot / (sqrt(n1) * sqrt(n2)) for finite dot, n1 > 0, n2 > 0
SimOf(dot, n1, n2) ==
  IF dot = 0 THEN SimZero
  ELSE LET g == GCD(dot * dot, n1 * n2)
       IN [nan |-> FALSE,
           sgn |-> IF dot > 0 THEN 1 ELSE -1,
           num |-> (dot * dot) \div g,
           den |-> (n1 * n2) \div g]

\* x <= p/q (p, q > 0) as JavaScript evaluates it: false when x is NaN
SimLeq(x, p, q) ==
  /\ ~x.nan
  /\ \/ x.sgn <= 0
     \/ x.num * q * q <= p * p * x.den

\* x > p/q
SimGt(x, p, q) ==
  /\ ~x.nan
  /\ x.sgn > 0
  /\ x.num * q * q > p * p * x.den

\* b - a > 0 in a sort comparator (false when either is NaN)
SimLess(a, b) ==
  /\ ~a.nan
  /\ ~b.nan
  /\ \/ a.sgn < b.sgn
     \/ a.sgn = 1 /\ b.sgn = 1 /\ a.num * b.den < b.num * a.den
     \/ a.sgn = -1 /\ b.sgn = -1 /\ a.num * b.den > b.num * a.den

(***************************************************************************)
(* lib/embeddings: cosineSimilarity                                        *)
(***************************************************************************)
\* the for loop: state after iterations 1..i
RECURSIVE CosineLoop(_, _, _)
CosineLoop(vec1, vec2, i) ==
  IF i = 0 THEN [dotProduct |-> 0, norm1 |-> 0, norm2 |-> 0]
  ELSE LET p == CosineLoop(vec1, vec2, i - 1)
       IN [dotProduct |-> FAdd(p.dotProduct, FMul(vec1[i], vec2[i])),
           norm1 |-> FAdd(p.norm1, FMul(vec1[i], vec1[i])),
           norm2 |-> FAdd(p.norm2, FMul(vec2[i], vec2[i]))]

\* the part after the loop
CosineFinish(acc) ==
  IF acc.norm1 = NaN \/ acc.norm2 = NaN \/ acc.dotProduct = NaN THEN SimNaN
  ELSE IF acc.norm1 = 0 \/ acc.norm2 = 0 THEN SimZero
  ELSE SimOf(acc.dotProduct, acc.norm1, acc.norm2)

\* reading past the end of vec2 yields undefined, which multiplies to NaN
ElemAt(v, i) == IF i \in DOMAIN v THEN v[i] ELSE NaN

RECURSIVE CosineLoopUnchecked(_, _, _)
CosineLoopUnchecked(vec1, vec2, i) ==
  IF i = 0 THEN [dotProduct |-> 0, norm1 |-> 0, norm2 |-> 0]
  ELSE LET p == CosineLoopUnchecked(vec1, vec2, i - 1)
       IN [dotProduct |-> FAdd(p.dotProduct, FMul(vec1[i], ElemAt(vec2, i))),
           norm1 |-> FAdd(p.norm1, FMul(vec1[i], vec1[i])),
           norm2 |-> FAdd(p.norm2, FMul(ElemAt(vec2, i), ElemAt(vec2, i)))]

\* variant without the length guard
CosineRunNoLengthCheck(vec1, vec2) ==
  [value |-> CosineFinish(CosineLoopUnchecked(vec1, vec2, Len(vec1))),
   steps |-> Len(vec1),
   threw |-> FALSE]

\* value returned, number of loop iterations executed, exception raised
CosineRun(vec1, vec2) ==
  IF Len(vec1) # Len(vec2)
  THEN [value |-> SimZero, steps |-> 0, threw |-> FALSE]
  ELSE [value |-> CosineFinish(CosineLoop(vec1, vec2, Len(vec1))),
        steps |-> Len(vec1),
        threw |-> FALSE]

\* variant whose zero check looks at norm1 only: x / 0 is not finite
cosineSimilarityNorm1Only(vec1, vec2) ==
  IF Len(vec1) # Len(vec2) THEN SimZero
  ELSE LET acc == CosineLoop(vec1, vec2, Len(vec1))
       IN IF acc.norm1 = NaN \/ acc.norm2 = NaN \/ acc.dotProduct = NaN THEN SimNaN
          ELSE IF acc.norm1 = 0 THEN SimZero
          ELSE IF acc.norm2 = 0 THEN SimNaN
          ELSE SimOf(acc.dotProduct, acc.norm1, acc.norm2)

cosineSimilarity(vec1, vec2) == CosineRun(vec1, vec2).value

(***************************************************************************)
(* JavaScript strings: sequences of one-character strings.                 *)
(***************************************************************************)
UpperCase == <<"A", "B", "C", "D", "E", "F", "G", "H", "I", "J", "K", "L", "M",
               "N", "O", "P", "Q", "R", "S", "T", "U", "V", "W", "X", "Y", "Z">>

LowerCase == <<"a", "b", "c", "d", "e", "f", "g", "h", "i", "j", "k", "l", "m",
               "n", "o", "p", "q", "r", "s", "t", "u", "v", "w", "x", "y", "z">>

ToLowerChar(c) ==
  IF \E i \in DOMAIN UpperCase : UpperCase[i] = c
  THEN LowerCase[CHOOSE i \in DOMAIN UpperCase : UpperCase[i] = c]
  ELSE c

\* String.prototype.toLowerCase
toLowerCase(s) == [i \in DOMAIN s |-> ToLowerChar(s[i])]

IsSpace(c) == c = " "

\* String.prototype.trim
RECURSIVE trim(_)
trim(s) ==
  IF s = <<>> THEN s
  ELSE IF IsSpace(Head(s)) THEN trim(Tail(s))
  ELSE IF IsSpace(s[Len(s)]) THEN trim(SubSeq(s, 1, Len(s) - 1))
  ELSE s

\* String.prototype.includes
includes(s, q) == \E i \in 0 .. (Len(s) - Len(q)) : SubSeq(s, i + 1, i + Len(q)) = q

\* String.prototype.split(/\s+/): the tokens between maximal whitespace runs,
\* with an empty token before a leading run and after a trailing one
RECURSIVE SplitFrom(_, _, _, _)
SplitFrom(s, i, cur, acc) ==
  IF i > Len(s) THEN Append(acc, cur)
  ELSE IF IsSpace(s[i])
       THEN IF i > 1 /\ IsSpace(s[i - 1])
            THEN SplitFrom(s, i + 1, cur, acc)
            ELSE SplitFrom(s, i + 1, <<>>, Append(acc, cur))
       ELSE SplitFrom(s, i + 1, Append(cur, s[i]), acc)

split(s) == SplitFrom(s, 1, <<>>, <<>>)

\* Array.prototype.join
RECURSIVE join(_, _)
join(parts, sep) ==
  IF parts = <<>> THEN <<>>
  ELSE IF Len(parts) = 1 THEN parts[1]
  ELSE parts[1] \o sep \o join(Tail(parts), sep)

\* String.prototype.substring(0, n)
substring(s, n) == SubSeq(s, 1, Min(Len(s), n))

\* parts.filter(Boolean) on an array of strings
RECURSIVE FilterNonEmpty(_)
FilterNonEmpty(parts) ==
  IF parts = <<>> THEN <<>>
  ELSE IF Head(parts) # <<>> THEN <<Head(parts)>> \o FilterNonEmpty(Tail(parts))
  ELSE FilterNonEmpty(Tail(parts))

\* truthiness of an optional string: present and not ''
TruthyStr(o) == IsSome(o) /\ Get(o) # <<>>

(***************************************************************************)
(* Content descriptors (the info object of a file).  Every field is         *)
(* optional; arrays are truthy even when empty, strings only when           *)
(* non-empty.  stats holds the JSON rendering of info.stats.                *)
(***************************************************************************)
NoInfo ==
  [type |-> None, summary |-> None, highlights |-> None, tags |-> None,
   objects |-> None, caption |-> None, scene |-> None, ocrText |-> None,
   scenes |-> None, actions |-> None, columns |-> None, numericStats |-> None,
   stats |-> None, analyzed |-> FALSE]

T_pdf == <<"p", "d", "f">>

T_text == <<"t", "e", "x", "t">>

T_image == <<"i", "m", "a", "g", "e">>

T_video == <<"v", "i", "d", "e", "o">>

T_csv == <<"c", "s", "v">>

(***************************************************************************)
(* lib/embeddings: generateEmbeddingText                                   *)
(***************************************************************************)
Sentinel ==
  <<"N", "o", " ", "c", "o", "n", "t", "e", "n", "t", " ",
    "a", "v", "a", "i", "l", "a", "b", "l", "e">>

MaxTextLength == 8000

Str_Columns == <<"C", "o", "l", "u", "m", "n", "s", ":", " ">>

Str_Statistics == <<"S", "t", "a", "t", "i", "s", "t", "i", "c", "s", ":", " ">>

Str_FileType == <<"F", "i", "l", "e", " ", "t", "y", "p", "e", ":", " ">>

Str_CommaSpace == <<",", " ">>

\* the parts array before filter(Boolean)
EmbeddingParts(fileInfo) ==
  (IF TruthyStr(fileInfo.summary) THEN <<Get(fileInfo.summary)>> ELSE <<>>)
  \o (IF IsSome(fileInfo.highlights) THEN Get(fileInfo.highlights) ELSE <<>>)
  \o (IF IsSome(fileInfo.tags) THEN Get(fileInfo.tags) ELSE <<>>)
  \o (IF IsSome(fileInfo.objects) THEN Get(fileInfo.objects) ELSE <<>>)
  \o (IF TruthyStr(fileInfo.caption) THEN <<Get(fileInfo.caption)>> ELSE <<>>)
  \o (IF TruthyStr(fileInfo.scene) THEN <<Get(fileInfo.scene)>> ELSE <<>>)
  \o (IF fileInfo.type = Some(T_csv) /\ IsSome(fileInfo.columns)
      THEN <<Str_Columns \o join(Get(fileInfo.columns), Str_CommaSpace)>> ELSE <<>>)
  \o (IF fileInfo.type = Some(T_csv) /\ IsSome(fileInfo.stats)
      THEN <<Str_Statistics \o Get(fileInfo.stats)>> ELSE <<>>)
  \o (IF TruthyStr(fileInfo.type) THEN <<Str_FileType \o Get(fileInfo.type)>> ELSE <<>>)

\* variant that always appends the file-type token, absent type included
generateEmbeddingTextAlwaysType(fileInfo) ==
  LET parts == EmbeddingParts(fileInfo)
               \o (IF TruthyStr(fileInfo.type) THEN <<>> ELSE <<Str_FileType>>)
      embeddingText == substring(join(FilterNonEmpty(parts), <<" ">>), MaxTextLength)
  IN IF embeddingText # <<>> THEN embeddingText ELSE Sentinel

generateEmbeddingText(fileInfo) ==
  LET embeddingText ==
        substring(join(FilterNonEmpty(EmbeddingParts(fileInfo)), <<" ">>), MaxTextLength)
  IN IF embeddingText # <<>> THEN embeddingText ELSE Sentinel

(***************************************************************************)
(* lib/recommender: recommendFiles, heuristic score (in tenths).           *)
(* A file is [filename, info, embedding] with info and embedding optional. *)
(***************************************************************************)
\* new Set(text.toLowerCase().split(/\s+/).filter(w => w.length > n))
WordsLonger(text, n) == {w \in Range(split(toLowerCase(text))) : Len(w) > n}

\* the same over an array of strings (flatMap)
WordsLongerOfAll(texts, n) == UNION {WordsLonger(texts[i], n) : i \in DOMAIN texts}

\* a.filter(x => b.includes(x)).length
CountShared(a, b) == Cardinality({i \in DOMAIN a : a[i] \in Range(b)})

BothSome(x, y) == IsSome(x) /\ IsSome(y)

BothTruthy(x, y) == TruthyStr(x) /\ TruthyStr(y)

\* (targetInfo.summary || '').toLowerCase().split(/\s+/)
SummaryWords(targetInfo) ==
  Range(split(toLowerCase(IF TruthyStr(targetInfo.summary) THEN Get(targetInfo.summary) ELSE <<>>)))

IsDocument(info) == info.type = Some(T_pdf) \/ info.type = Some(T_text)

\* 1. type matching
ScoreType(t, f) == IF TruthyStr(f.type) /\ f.type = t.type THEN 5 ELSE 0

\* 2. cross-modal: document target against image objects, video scenes and actions
ScoreCrossModal(t, f) ==
  IF ~IsDocument(t) THEN 0
  ELSE
    (IF f.type = Some(T_image) /\ IsSome(f.objects)
     THEN 20 * Cardinality({i \in DOMAIN Get(f.objects) :
            \E word \in SummaryWords(t) :
              \/ includes(word, toLowerCase(Get(f.objects)[i]))
              \/ includes(toLowerCase(Get(f.objects)[i]), word)})
     ELSE 0)
    + (IF f.type = Some(T_video) /\ IsSome(f.scenes)
       THEN 15 * Cardinality({i \in DOMAIN Get(f.scenes) :
              \E word \in SummaryWords(t) :
                includes(toLowerCase(Get(f.scenes)[i]), word) /\ Len(word) > 3})
       ELSE 0)
    + (IF f.type = Some(T_video) /\ IsSome(f.actions)
       THEN 15 * Cardinality({i \in DOMAIN Get(f.actions) :
              \E word \in SummaryWords(t) :
                includes(toLowerCase(Get(f.actions)[i]), word) /\ Len(word) > 3})
       ELSE 0)

\* video-to-video: scene words and shared actions
ScoreVideo(t, f) ==
  IF t.type = Some(T_video) /\ f.type = Some(T_video)
  THEN (IF BothSome(t.scenes, f.scenes)
        THEN 15 * Cardinality(WordsLongerOfAll(Get(t.scenes), 3)
                              \cap WordsLongerOfAll(Get(f.scenes), 3))
        ELSE 0)
       + (IF BothSome(t.actions, f.actions)
          THEN 20 * CountShared(Get(t.actions), Get(f.actions))
          ELSE 0)
  ELSE 0

\* 3. shared tags and objects
ScoreTagsObjects(t, f) ==
  (IF BothSome(f.tags, t.tags) THEN 15 * CountShared(Get(f.tags), Get(t.tags)) ELSE 0)
  + (IF BothSome(f.objects, t.objects)
     THEN 20 * CountShared(Get(f.objects), Get(t.objects)) ELSE 0)

\* 4. summary keywords
ScoreSummary(t, f) ==
  IF BothTruthy(f.summary, t.summary)
  THEN LET common == WordsLonger(Get(t.summary), 3) \cap WordsLonger(Get(f.summary), 3)
       IN 20 * Cardinality(common) + (IF Cardinality(common) >= 3 THEN 20 ELSE 0)
  ELSE 0

\* image-to-image: objects, scene, caption
ScoreImage(t, f) ==
  IF t.type = Some(T_image) /\ f.type = Some(T_image)
  THEN (IF BothSome(t.objects, f.objects)
        THEN 30 * CountShared(Get(t.objects), Get(f.objects)) ELSE 0)
       + (IF BothTruthy(t.scene, f.scene)
          THEN 20 * Cardinality(WordsLonger(Get(t.scene), 3) \cap WordsLonger(Get(f.scene), 3))
          ELSE 0)
       + (IF BothTruthy(t.caption, f.caption)
          THEN 15 * Cardinality(WordsLonger(Get(t.caption), 3)
                                \cap WordsLonger(Get(f.caption), 3))
          ELSE 0)
  ELSE 0

\* PDF-to-PDF: summary and highlights
ScorePdf(t, f) ==
  IF t.type = Some(T_pdf) /\ f.type = Some(T_pdf)
  THEN (IF BothTruthy(t.summary, f.summary)
        THEN LET common == WordsLonger(Get(t.summary), 4) \cap WordsLonger(Get(f.summary), 4)
             IN 25 * Cardinality(common) + (IF Cardinality(common) >= 5 THEN 30 ELSE 0)
        ELSE 0)
       + (IF BothSome(t.highlights, f.highlights)
          THEN 15 * Cardinality(WordsLongerOfAll(Get(t.highlights), 4)
                                \cap WordsLongerOfAll(Get(f.highlights), 4))
          ELSE 0)
  ELSE 0

\* 5. equal scene; words shared by the joined scene descriptions
ScoreScenes(t, f) ==
  (IF BothTruthy(f.scene, t.scene) /\ f.scene = t.scene THEN 20 ELSE 0)
  + (IF BothSome(t.scenes, f.scenes)
     THEN 5 * Cardinality(WordsLonger(join(Get(t.scenes), <<" ">>), 3)
                          \cap WordsLonger(join(Get(f.scenes), <<" ">>), 3))
     ELSE 0)

\* 6. shared CSV columns
ScoreCsv(t, f) ==
  IF f.type = Some(T_csv) /\ t.type = Some(T_csv) /\ BothSome(f.columns, t.columns)
  THEN 10 * CountShared(Get(f.columns), Get(t.columns))
  ELSE 0

\* 7. highlights words
ScoreHighlights(t, f) ==
  IF BothSome(f.highlights, t.highlights)
  THEN 3 * Cardinality(WordsLongerOfAll(Get(t.highlights), 3)
                       \cap WordsLongerOfAll(Get(f.highlights), 3))
  ELSE 0

\* 8. AI-analyzed bonus
ScoreStatus(f) == IF f.analyzed THEN 5 ELSE 0

\* the score of one file; reading a field of a missing info raises inside
\* the try block and leaves the score at 0
HeuristicScore(targetInfo, file) ==
  IF ~IsSome(file.info) THEN 0
  ELSE LET f == Get(file.info)
           t == targetInfo
       IN ScoreType(t, f) + ScoreCrossModal(t, f) + ScoreVideo(t, f)
          + ScoreTagsObjects(t, f) + ScoreSummary(t, f) + ScoreImage(t, f)
          + ScorePdf(t, f) + ScoreScenes(t, f) + ScoreCsv(t, f)
          + ScoreHighlights(t, f) + ScoreStatus(f)

SimilarityGateNum == 15

SimilarityGateDen == 100

MinScoreThreshold == 30

MaxRecommendations == 5

\* stable sort, descending by similarity (comparator b.similarity - a.similarity)
RECURSIVE InsertBySimilarity(_, _)
InsertBySimilarity(x, sorted) ==
  IF sorted = <<>> THEN <<x>>
  ELSE IF SimLess(Head(sorted).similarity, x.similarity) THEN <<x>> \o sorted
  ELSE <<Head(sorted)>> \o InsertBySimilarity(x, Tail(sorted))

RECURSIVE SortBySimilarity(_)
SortBySimilarity(items) ==
  IF items = <<>> THEN <<>>
  ELSE InsertBySimilarity(items[Len(items)], SortBySimilarity(SubSeq(items, 1, Len(items) - 1)))

\* stable sort, descending by score
RECURSIVE InsertByScore(_, _)
InsertByScore(x, sorted) ==
  IF sorted = <<>> THEN <<x>>
  ELSE IF Head(sorted).score < x.score THEN <<x>> \o sorted
  ELSE <<Head(sorted)>> \o InsertByScore(x, Tail(sorted))

RECURSIVE SortByScore(_)
SortByScore(items) ==
  IF items = <<>> THEN <<>>
  ELSE InsertByScore(items[Len(items)], SortByScore(SubSeq(items, 1, Len(items) - 1)))

\* variant that keeps the target among the candidates
OtherFilesUnfiltered(files, target) == files

\* files.filter(f => f.filename !== target?.filename)
RECURSIVE OtherFiles(_, _)
OtherFiles(files, target) ==
  IF files = <<>> THEN <<>>
  ELSE IF IsSome(target) /\ Head(files).filename = Get(target).filename
       THEN OtherFiles(Tail(files), target)
       ELSE <<Head(files)>> \o OtherFiles(Tail(files), target)

\* the map/filter chain of the vector path, before sort and slice: a
\* candidate needs a non-empty embedding of the target's length and a
\* similarity that is not <= 0.15
RECURSIVE VectorKept(_, _)
VectorKept(otherFiles, emb) ==
  IF otherFiles = <<>> THEN <<>>
  ELSE LET f == Head(otherFiles)
           rest == VectorKept(Tail(otherFiles), emb)
       IN IF ~IsSome(f.embedding) \/ Len(Get(f.embedding)) = 0 THEN rest
          ELSE IF Len(Get(f.embedding)) # Len(emb) THEN rest
          ELSE LET similarity == cosineSimilarity(emb, Get(f.embedding))
               IN IF SimLeq(similarity, SimilarityGateNum, SimilarityGateDen) THEN rest
                  ELSE <<[file |-> f, similarity |-> similarity]>> \o rest

\* variant without the dimension check that scores over the common prefix
RECURSIVE VectorKeptPrefix(_, _)
VectorKeptPrefix(otherFiles, emb) ==
  IF otherFiles = <<>> THEN <<>>
  ELSE LET f == Head(otherFiles)
           rest == VectorKeptPrefix(Tail(otherFiles), emb)
       IN IF ~IsSome(f.embedding) \/ Len(Get(f.embedding)) = 0 THEN rest
          ELSE LET n == Min(Len(emb), Len(Get(f.embedding)))
                   similarity == cosineSimilarity(SubSeq(emb, 1, n),
                                                  SubSeq(Get(f.embedding), 1, n))
               IN IF SimLeq(similarity, SimilarityGateNum, SimilarityGateDen) THEN rest
                  ELSE <<[file |-> f, similarity |-> similarity]>> \o rest

VectorScoredPrefix(otherFiles, emb) ==
  Slice(SortBySimilarity(VectorKeptPrefix(otherFiles, emb)), MaxRecommendations)

VectorScored(otherFiles, emb) ==
  Slice(SortBySimilarity(VectorKept(otherFiles, emb)), MaxRecommendations)

\* scores.filter(s => s.score >= minScoreThreshold)
RECURSIVE HeuristicKept(_, _)
HeuristicKept(otherFiles, targetInfo) ==
  IF otherFiles = <<>> THEN <<>>
  ELSE LET f == Head(otherFiles)
           score == HeuristicScore(targetInfo, f)
           rest == HeuristicKept(Tail(otherFiles), targetInfo)
       IN IF score >= MinScoreThreshold THEN <<[file |-> f, score |-> score]>> \o rest
          ELSE rest

HeuristicSorted(otherFiles, targetInfo) ==
  Slice(SortByScore(HeuristicKept(otherFiles, targetInfo)), MaxRecommendations)

\* the returned array: {filename, info} of each kept entry
Returned(kept) == [i \in DOMAIN kept |-> [filename |-> kept[i].file.filename,
                                          info |-> kept[i].file.info]]

\* the heuristic path returns the file objects themselves
ReturnedFiles(kept) == [i \in DOMAIN kept |-> kept[i].file]

\* the statement `fileInfo.type` raises a TypeError when a file has no info
ScoringRaises(file) == ~IsSome(file.info)

\* the try/catch around the scoring of one file swallows what it raises
ScoringErrorsCaught == TRUE

RecResult(value, path, kept, genCalls, threw) ==
  [value |-> value, path |-> path, kept |-> kept, genCalls |-> genCalls, threw |-> threw]

\* variant of the stored-embedding path that neither sorts nor truncates
StoredScoredUnsorted(otherFiles, target, useVectorSearch) ==
  IF /\ IsSome(target)
     /\ IsSome(Get(target).info)
     /\ useVectorSearch
     /\ IsSome(Get(target).embedding)
     /\ Len(Get(Get(target).embedding)) > 0
  THEN VectorKept(otherFiles, Get(Get(target).embedding))
  ELSE <<>>

\* the scored entries of the stored-embedding path: taken when vector search
\* is on and the target has info and a non-empty embedding
StoredScored(otherFiles, target, useVectorSearch) ==
  IF /\ IsSome(target)
     /\ IsSome(Get(target).info)
     /\ useVectorSearch
     /\ IsSome(Get(target).embedding)
     /\ Len(Get(Get(target).embedding)) > 0
  THEN VectorScored(otherFiles, Get(Get(target).embedding))
  ELSE <<>>

\* variant that generates also for a target that has a stored embedding
AwaitsGenerationWithStored(files, target, useVectorSearch) ==
  /\ files # <<>>
  /\ OtherFiles(files, target) # <<>>
  /\ IsSome(target)
  /\ IsSome(Get(target).info)
  /\ useVectorSearch
  /\ generateEmbeddingText(Get(Get(target).info)) # Sentinel

\* generateEmbedding is awaited: vector search is on, the stored-embedding
\* path returned nothing, the target has no embedding and its embedding text
\* is not the sentinel
AwaitsGeneration(files, target, useVectorSearch) ==
  /\ files # <<>>
  /\ OtherFiles(files, target) # <<>>
  /\ IsSome(target)
  /\ IsSome(Get(target).info)
  /\ useVectorSearch
  /\ ~IsSome(Get(target).embedding)
  /\ generateEmbeddingText(Get(Get(target).info)) # Sentinel

\* recommendFiles(files, target, useVectorSearch, provider, model); gen is
\* what generateEmbedding resolves to if it is awaited.  The result records
\* the returned array, the path that produced it, the scored entries behind
\* it and the number of generateEmbedding calls made.
recommendFiles(files, target, useVectorSearch, gen) ==
  LET otherFiles == OtherFiles(files, target)
      hasInfo == IsSome(target) /\ IsSome(Get(target).info)
      stored == StoredScored(otherFiles, target, useVectorSearch)
      generates == AwaitsGeneration(files, target, useVectorSearch)
      generated == IF generates /\ IsSome(gen) /\ Len(Get(gen)) > 0
                   THEN VectorScored(otherFiles, Get(gen)) ELSE <<>>
      sorted == IF hasInfo THEN HeuristicSorted(otherFiles, Get(Get(target).info)) ELSE <<>>
      calls == IF generates THEN 1 ELSE 0
      threw == hasInfo /\ ~ScoringErrorsCaught
               /\ \E i \in DOMAIN otherFiles : ScoringRaises(otherFiles[i])
  IN IF files = <<>> \/ otherFiles = <<>> THEN RecResult(<<>>, "none", <<>>, 0, FALSE)
     ELSE IF stored # <<>> THEN RecResult(Returned(stored), "vector", stored, 0, FALSE)
     ELSE IF generated # <<>>
          THEN RecResult(Returned(generated), "generated", generated, calls, FALSE)
     ELSE IF threw THEN RecResult(<<>>, "none", <<>>, calls, TRUE)
     ELSE IF sorted # <<>>
          THEN RecResult(ReturnedFiles(sorted), "heuristic", sorted, calls, FALSE)
     ELSE RecResult(<<>>, "none", <<>>, calls, FALSE)

(***************************************************************************)
(* State.                                                                  *)
(***************************************************************************)
VARIABLES
  cVec1, cVec2, cOut,   \* cosineSimilarity: arguments and outcome
  tInfo, tOut,          \* generateEmbeddingText: argument and outcome
  rFiles,               \* recommend: the file list (store rows or local files)
  rTarget,              \* recommend: the target passed to recommendFiles
  rUseVector,           \* recommend: useVectorSearch
  rGen,                 \* recommend: what generateEmbedding resolved to, if awaited
  rOut,                 \* recommend: outcome of the call or request
  sStore,               \* search: the rows of the files table
  sQuery, sLimit,       \* search: the q and limit parameters of the request
  sPc,                  \* search: where the request handler is
  sQueryEmbedding,      \* search: queryEmbedding
  sSupabase,            \* search: whether supabaseServer() returned a client
  sScored,              \* search: allScoredFiles of stage 1
  sKeywordOnly,         \* search: keywordOnlyResults of stage 2
  sCalls,               \* search: calls made to the embedding provider and the store
  sWrites,              \* search: writes other requests made to the table meanwhile
  sResp,                \* search: the response
  sStages,              \* search: the stages the request has run, in order
  gIn, gOut,            \* generateEmbedding: the requested provider and model, and
                        \* the last call with the outcomes of its external steps
  gGenerated,           \* generateEmbedding: the vectors generated for the request
  xIn, xIdx, xResults,  \* reindex: the request and its files, the loop index,
                        \* the results array
  xPc,                  \* reindex: position of the handler
  kM, kOut,             \* keyword scoring: the field matches and both scores
  iInfo, iEmbedding,    \* ingestion: the descriptor and the embedding stored for one
                        \* item, the embedding with the text it was generated from
  iTasks,               \* ingestion: the embedding tasks in progress for the item
  iTexts,               \* ingestion: the texts passed to generateEmbedding
  iRequests,            \* ingestion: the requests made so far
  pPc, pCache, pLoads,  \* on-device pipeline: position of each request, the cached
                        \* instance, the number of model loads
  qStore, qPc, qWrites, \* the two reads of a search: the table, the position of the
                        \* request, the writes made between the reads
  qSeen1, qSeen2        \* the filenames returned by the has-embedding read and by
                        \* the no-embedding read

vars ==
  <<cVec1, cVec2, cOut, tInfo, tOut, rFiles, rTarget, rUseVector, rGen, rOut,
    sStore, sQuery, sLimit, sPc, sQueryEmbedding, sSupabase, sScored, sKeywordOnly,
    sCalls, sWrites, sResp, sStages, gIn, gOut, gGenerated, xIn, xIdx, xResults,
    xPc, kM, kOut, iInfo, iEmbedding, iTasks, iTexts, iRequests, pPc, pCache, pLoads,
    qStore, qPc, qWrites, qSeen1, qSeen2>>

searchVars ==
  <<sStore, sQuery, sLimit, sPc, sQueryEmbedding, sSupabase, sScored, sKeywordOnly,
    sCalls, sWrites, sResp, sStages>>

embedVars == <<gIn, gOut, gGenerated>>

reindexVars == <<xIn, xIdx, xResults, xPc>>

scoreVars == <<kM, kOut>>

ingestVars == <<iInfo, iEmbedding, iTasks, iTexts, iRequests>>

pipelineVars == <<pPc, pCache, pLoads>>

readVars == <<qStore, qPc, qWrites, qSeen1, qSeen2>>

moreVars == <<ingestVars, pipelineVars, readVars>>

libVars == <<embedVars, reindexVars, scoreVars, moreVars>>

recVars == <<rFiles, rTarget, rUseVector, rGen, rOut>>

cosineVars == <<cVec1, cVec2, cOut>>

textVars == <<tInfo, tOut>>

CosineIdle == cVec1 = <<>> /\ cVec2 = <<>> /\ cOut = None

TextIdle == tInfo = NoInfo /\ tOut = None

RecIdle ==
  /\ rFiles = <<>>
  /\ rTarget = None
  /\ rUseVector = FALSE
  /\ rGen = None
  /\ rOut = None

EmbedIdle == gIn = <<>> /\ gOut = None /\ gGenerated = {}

ReindexIdle == xIn = <<>> /\ xIdx = 0 /\ xResults = <<>> /\ xPc = "idle"

ScoreIdle == kM = <<>> /\ kOut = None

IngestIdle ==
  /\ iInfo = None
  /\ iEmbedding = None
  /\ iTasks = <<>>
  /\ iTexts = {}
  /\ iRequests = 0

\* no instance has been created: the count of pipeline(...) calls that returned
\* an instance, for the embedder and for the summarizer
NoLoads == [embed |-> 0, summarize |-> 0]

\* `let _summarizer: any = null`: 0 is null, n > 0 the n-th instance created
PipelineIdle == pPc = <<>> /\ pCache = 0 /\ pLoads = NoLoads

ReadIdle ==
  /\ qStore = <<>>
  /\ qPc = "idle"
  /\ qWrites = 0
  /\ qSeen1 = None
  /\ qSeen2 = None

MoreIdle == IngestIdle /\ PipelineIdle /\ ReadIdle

LibIdle == EmbedIdle /\ ReindexIdle /\ ScoreIdle /\ MoreIdle

NoCalls == [embedding |-> 0, store |-> 0]

SearchIdle ==
  /\ sStore = <<>>
  /\ sQuery = None
  /\ sLimit = 0
  /\ sPc = "idle"
  /\ sQueryEmbedding = None
  /\ sSupabase = FALSE
  /\ sScored = <<>>
  /\ sKeywordOnly = <<>>
  /\ sCalls = NoCalls
  /\ sWrites = 0
  /\ sResp = None
  /\ sStages = <<>>

(***************************************************************************)
(* Specification of cosineSimilarity calls.                                *)
(***************************************************************************)
Elems == (-MaxElem .. MaxElem) \cup {NaN}

Vectors == SeqsUpTo(Elems, MaxDim)

FiniteVectors == SeqsUpTo(-MaxElem .. MaxElem, MaxDim)

CosineInit ==
  /\ cVec1 \in Vectors
  /\ cVec2 \in Vectors
  /\ cOut = None
  /\ TextIdle
  /\ RecIdle
  /\ SearchIdle
  /\ LibIdle

CallCosine ==
  /\ cOut = None
  /\ cOut' = Some([run |-> CosineRun(cVec1, cVec2),
                   ab |-> cosineSimilarity(cVec1, cVec2),
                   ba |-> cosineSimilarity(cVec2, cVec1)])
  /\ UNCHANGED <<cVec1, cVec2, textVars, recVars, searchVars, libVars>>

CosineNext == CallCosine

SpecCosine == CosineInit /\ [][CosineNext]_vars

\* C5: for vectors of different lengths cosineSimilarity returns 0, runs no
\* iteration of the elementwise loop and raises nothing.
C5_LengthMismatchIsZero ==
  (IsSome(cOut) /\ Len(cVec1) # Len(cVec2))
    => Get(cOut).run = [value |-> SimZero, steps |-> 0, threw |-> FALSE]

C5_Witness ==
  /\ IsSome(cOut)
  /\ Len(cVec1) = 1
  /\ Len(cVec2) = 2
  /\ Get(cOut).ab = SimZero

\* C6: for equal-length vectors cosineSimilarity(a, b) = cosineSimilarity(b, a),
\* the zero-magnitude case (both 0) included.
C6_Symmetric ==
  (IsSome(cOut) /\ Len(cVec1) = Len(cVec2)) => Get(cOut).ab = Get(cOut).ba

C6_Witness ==
  /\ IsSome(cOut)
  /\ cVec1 = <<0, 0>>
  /\ cVec2 = <<1, -1>>
  /\ Get(cOut).ab = SimZero
  /\ Get(cOut).ba = SimZero

(***************************************************************************)
(* Specification of generateEmbeddingText calls.                           *)
(***************************************************************************)
S_empty == <<>>

S_a == <<"a">>

S_space == <<" ">>

OptStrings == {None, Some(S_empty), Some(S_a)}

OptArrays == {None, Some(<<>>), Some(<<S_empty>>), Some(<<S_a>>), Some(<<S_empty, S_a>>)}

TextInfos ==
  {[NoInfo EXCEPT !.type = ty, !.summary = su, !.highlights = hi, !.tags = ta,
                  !.caption = ca, !.scenes = sc, !.ocrText = oc, !.columns = co] :
     ty \in {None, Some(S_empty), Some(T_pdf), Some(T_csv)},
     su \in OptStrings,
     hi \in OptArrays,
     ta \in {None, Some(<<S_a>>)},
     ca \in {None, Some(S_space)},
     sc \in {None, Some(<<S_a>>)},
     oc \in {None, Some(S_a)},
     co \in {None, Some(<<S_a>>)}}

TextInit ==
  /\ tInfo \in TextInfos
  /\ tOut = None
  /\ CosineIdle
  /\ RecIdle
  /\ SearchIdle
  /\ LibIdle

CallGenerateEmbeddingText ==
  /\ tOut = None
  /\ tOut' = Some(generateEmbeddingText(tInfo))
  /\ UNCHANGED <<tInfo, cosineVars, recVars, searchVars, libVars>>

TextNext == CallGenerateEmbeddingText

SpecText == TextInit /\ [][TextNext]_vars

\* an array field holds no non-empty string
NoTextIn(o) == IsSome(o) => \A i \in DOMAIN Get(o) : Get(o)[i] = <<>>

\* an array field is absent or has no element
EmptyArray(o) == IsSome(o) => Get(o) = <<>>

\* every optional attribute of the data model is empty or absent
AllOptionalFieldsEmpty(info) ==
  /\ ~TruthyStr(info.summary)
  /\ ~TruthyStr(info.caption)
  /\ ~TruthyStr(info.scene)
  /\ ~TruthyStr(info.ocrText)
  /\ NoTextIn(info.highlights)
  /\ NoTextIn(info.tags)
  /\ NoTextIn(info.objects)
  /\ NoTextIn(info.scenes)
  /\ NoTextIn(info.actions)
  /\ NoTextIn(info.columns)
  /\ EmptyArray(info.numericStats)

\* the fields generateEmbeddingText reads yield no text
ReadFieldsEmpty(info) ==
  /\ ~TruthyStr(info.summary)
  /\ ~TruthyStr(info.caption)
  /\ ~TruthyStr(info.scene)
  /\ ~TruthyStr(info.type)
  /\ NoTextIn(info.highlights)
  /\ NoTextIn(info.tags)
  /\ NoTextIn(info.objects)

FromDb(rows) ==
  [i \in DOMAIN rows |->
     [filename |-> rows[i].filename,
      info |-> IF IsSome(rows[i].info) THEN rows[i].info ELSE Some(NoInfo),
      embedding |-> rows[i].embedding]]

\* the local listing: {filename, info} of every upload, no embedding
FromLocal(rows) ==
  [i \in DOMAIN rows |->
     [filename |-> rows[i].filename, info |-> rows[i].info, embedding |-> None]]

\* files.find(f => f.filename === target)
Find(files, key) ==
  IF IsSome(key) /\ \E i \in DOMAIN files : files[i].filename = Get(key)
  THEN Some(files[CHOOSE i \in DOMAIN files :
                    /\ files[i].filename = Get(key)
                    /\ \A j \in 1 .. (i - 1) : files[j].filename # Get(key)])
  ELSE None

\* the files the handler works on: the rows of the store when the query
\* succeeds and returns any, the local uploads otherwise
LoadedFiles(rows, db) == IF db = "ok" /\ rows # <<>> THEN FromDb(rows) ELSE FromLocal(rows)

\* the JSON response of GET /api/recommend
RecommendResponse(rows, key, useVector, gen, db, dirExists) ==
  LET fromDb == db = "ok" /\ rows # <<>>
      files == LoadedFiles(rows, db)
      targetFile == Find(files, key)
      rec == recommendFiles(files, targetFile, useVector, gen)
  IN IF ~fromDb /\ ~dirExists
     THEN [status |-> 200, recommendations |-> <<>>, target |-> None,
           rec |-> RecResult(<<>>, "none", <<>>, 0, FALSE)]
     ELSE IF rec.threw
          THEN [status |-> 500, recommendations |-> <<>>, target |-> targetFile, rec |-> rec]
          ELSE [status |-> 200, recommendations |-> rec.value, target |-> targetFile,
                rec |-> rec]

(***************************************************************************)
(* Specification of recommendFiles calls and recommend requests.           *)
(***************************************************************************)
S_catsBeach == <<"c", "a", "t", "s", " ", "b", "e", "a", "c", "h">>

S_CatsBeach == <<"C", "a", "t", "s", " ", "B", "e", "a", "c", "h">>

S_cat == <<"c", "a", "t">>

S_beach == <<"b", "e", "a", "c", "h">>

S_x == <<"x">>

\* a PDF with a summary and one tag
RI_doc == [NoInfo EXCEPT !.type = Some(T_pdf), !.summary = Some(S_CatsBeach),
                         !.tags = Some(<<S_x>>)]

\* a PDF with the same summary words
RI_doc2 == [NoInfo EXCEPT !.type = Some(T_pdf), !.summary = Some(S_catsBeach)]

\* an analyzed image with one detected object
RI_img == [NoInfo EXCEPT !.type = Some(T_image), !.objects = Some(<<S_cat>>),
                         !.analyzed = TRUE]

\* an image with two detected objects
RI_img2 == [NoInfo EXCEPT !.type = Some(T_image), !.objects = Some(<<S_cat, S_beach>>)]

\* an untyped item whose tags repeat the target's tag
RI_tags == [NoInfo EXCEPT !.tags = Some(<<S_x, S_x>>)]

\* a text file with an empty summary
RI_emptyDoc == [NoInfo EXCEPT !.type = Some(T_text), !.summary = Some(S_empty)]

Profile(info, embedding) == [info |-> info, embedding |-> embedding]

MixedProfiles ==
  {Profile(Some(RI_doc2), Some(<<1, 0>>)),
   Profile(Some(RI_img), Some(<<1, 7>>)),
   Profile(Some(RI_tags), Some(<<1>>)),
   Profile(None, Some(<<1, 1>>)),
   Profile(Some(RI_img2), None),
   Profile(Some(RI_doc), None)}

LongProfiles ==
  {Profile(Some(RI_doc2), Some(<<1, 0>>)),
   Profile(Some(RI_img), Some(<<1, 7>>))}

\* a list of files named 1, 2, ... in order
MkFiles(profiles) ==
  [i \in DOMAIN profiles |->
     [filename |-> i, info |-> profiles[i].info, embedding |-> profiles[i].embedding]]

\* short lists of any profiles, and longer ones: a short list of the
\* embedded profiles followed by copies of one of them
FileLists ==
  {MkFiles(p) : p \in SeqsUpTo(MixedProfiles, MaxMixed)}
  \cup {MkFiles(p \o [i \in 1 .. k |-> Profile(Some(RI_doc2), Some(<<1, 0>>))]) :
          p \in [1 .. MaxMixed -> LongProfiles], k \in 1 .. (MaxFiles - MaxMixed)}

\* a target that is not in the list
ExternalTargets ==
  {[filename |-> 0, info |-> i, embedding |-> e] :
     i \in {None, Some(RI_doc), Some(RI_emptyDoc)},
     e \in {None, Some(<<>>), Some(<<1, 0>>)}}

\* what generateEmbedding may resolve to: null, an empty array, a vector,
\* a vector with a non-finite element
GenOutcomes == {None, Some(<<>>), Some(<<1, 0>>), Some(<<1>>), Some(<<NaN, 0>>)}

\* the outcomes of the generateEmbedding call of one run, if it makes one
GenChoices(files, target, useVector) ==
  IF AwaitsGeneration(files, target, useVector) THEN GenOutcomes ELSE {None}

\* the store answers with rows, or is unconfigured or fails
DbOutcomes == {"ok", "unavailable"}

\* whether the uploads directory exists, consulted only by the local listing
DirChoices(rows, db) == IF db = "ok" /\ rows # <<>> THEN {TRUE} ELSE BOOLEAN

RecInit ==
  /\ rFiles \in FileLists
  /\ rTarget = None
  /\ rUseVector = FALSE
  /\ rGen = None
  /\ rOut = None
  /\ CosineIdle
  /\ TextIdle
  /\ SearchIdle
  /\ LibIdle

\* a direct call of recommendFiles with any target
CallRecommendFiles ==
  /\ rOut = None
  /\ \E target \in {None} \cup {Some(t) : t \in ExternalTargets}
                     \cup {Some(rFiles[i]) : i \in DOMAIN rFiles},
        useVector \in BOOLEAN :
        \E gen \in GenChoices(rFiles, target, useVector) :
          LET rec == recommendFiles(rFiles, target, useVector, gen)
          IN /\ rTarget' = target
             /\ rUseVector' = useVector
             /\ rGen' = gen
             /\ rOut' = Some([via |-> "call", status |-> 200,
                              recommendations |-> rec.value, rec |-> rec])
  /\ UNCHANGED <<rFiles, cosineVars, textVars, searchVars, libVars>>

\* GET /api/recommend?file=key&vector=...
GetRecommend ==
  /\ rOut = None
  /\ \E key \in {None} \cup {Some(k) : k \in 0 .. Len(rFiles)},
        useVector \in BOOLEAN, db \in DbOutcomes :
        \E dirExists \in DirChoices(rFiles, db),
           gen \in GenChoices(LoadedFiles(rFiles, db), Find(LoadedFiles(rFiles, db), key),
                              useVector) :
          LET resp == RecommendResponse(rFiles, key, useVector, gen, db, dirExists)
          IN /\ rTarget' = resp.target
             /\ rUseVector' = useVector
             /\ rGen' = IF resp.rec.genCalls > 0 THEN gen ELSE None
             /\ rOut' = Some([via |-> "route", status |-> resp.status,
                              recommendations |-> resp.recommendations, rec |-> resp.rec])
  /\ UNCHANGED <<rFiles, cosineVars, textVars, searchVars, libVars>>

RecNext == CallRecommendFiles \/ GetRecommend

SpecRecommend == RecInit /\ [][RecNext]_vars

\* the embedding the vector path compared against: the target's stored one,
\* or the generated one
RecTargetEmbedding ==
  IF Get(rOut).rec.path = "vector" THEN Get(Get(rTarget).embedding) ELSE Get(rGen)

RecVectorPath == Get(rOut).rec.path \in {"vector", "generated"}

\* C1: the returned sequence never holds an item with the target's filename
\* and never has more than 5 elements.
C1_NoTargetAtMostFive ==
  IsSome(rOut) =>
    LET value == Get(rOut).recommendations
    IN /\ Len(value) <= 5
       /\ IsSome(rTarget) => \A i \in DOMAIN value : value[i].filename # Get(rTarget).filename

C1_Witness ==
  /\ IsSome(rOut)
  /\ Len(rFiles) = 7
  /\ IsSome(rTarget)
  /\ Get(rTarget).filename \in 1 .. 7
  /\ Len(Get(rOut).recommendations) = 5

\* C2 as stated: every candidate returned by the vector path has similarity
\* to the target strictly greater than 0.15, and every candidate returned by
\* the heuristic path has a score of at least 3.0.
C2_Original ==
  IsSome(rOut) =>
    LET rec == Get(rOut).rec
    IN \A i \in DOMAIN rec.kept :
         IF RecVectorPath
         THEN SimGt(cosineSimilarity(RecTargetEmbedding, Get(rec.kept[i].file.embedding)),
                    15, 100)
         ELSE HeuristicScore(Get(Get(rTarget).info), rec.kept[i].file) >= 30

\* a candidate clears a gate against the target: similarity above 0.15 with
\* the embedding compared against, or heuristic score of at least 3.0
ClearsVectorGate(f, emb) ==
  /\ IsSome(f.embedding)
  /\ SimGt(cosineSimilarity(emb, Get(f.embedding)), 15, 100)

ClearsHeuristicGate(f, targetInfo) == HeuristicScore(targetInfo, f) >= 30

\* C3 as stated: the result is empty when no target is given or the key is
\* unknown, and every returned item cleared the vector gate or the heuristic
\* gate against the target.
C3_Original ==
  IsSome(rOut) =>
    LET rec == Get(rOut).rec
    IN /\ ~IsSome(rTarget) => Get(rOut).recommendations = <<>>
       /\ \A i \in DOMAIN rec.kept :
            \/ RecVectorPath /\ ClearsVectorGate(rec.kept[i].file, RecTargetEmbedding)
            \/ ClearsHeuristicGate(rec.kept[i].file, Get(Get(rTarget).info))

\* C4 as stated: with vector search on, a candidate whose stored embedding
\* differs in length from the target's stored embedding is never returned,
\* and the call does not throw.
C4_Original ==
  (IsSome(rOut) /\ rUseVector /\ IsSome(rTarget) /\ IsSome(Get(rTarget).embedding)) =>
    LET rec == Get(rOut).rec
    IN /\ ~rec.threw
       /\ \A i \in DOMAIN rec.kept :
            IsSome(rec.kept[i].file.embedding)
              => Len(Get(rec.kept[i].file.embedding)) = Len(Get(Get(rTarget).embedding))

\* C4 amended: a candidate whose stored embedding differs in length from the
\* embedding compared against is never returned by the vector path; it is
\* returned only by the heuristic path, with a score of at least 3.0; the
\* call does not throw.
C4_MismatchOnlyByHeuristic ==
  IsSome(rOut) =>
    LET rec == Get(rOut).rec
    IN /\ ~rec.threw
       /\ Get(rOut).status = 200
       /\ \A i \in DOMAIN rec.kept :
            IF RecVectorPath
            THEN /\ IsSome(rec.kept[i].file.embedding)
                 /\ Len(Get(rec.kept[i].file.embedding)) = Len(RecTargetEmbedding)
            ELSE HeuristicScore(Get(Get(rTarget).info), rec.kept[i].file) >= 30

C4_Witness ==
  /\ IsSome(rOut)
  /\ IsSome(rTarget)
  /\ Get(rTarget).embedding = Some(<<1, 0>>)
  /\ rUseVector
  /\ Get(rOut).rec.path = "heuristic"
  /\ \E i \in DOMAIN Get(rOut).rec.kept :
       Get(rOut).rec.kept[i].file.embedding = Some(<<1>>)

\* the candidates with a stored embedding of the target's length whose
\* similarity to the target's stored embedding is above 0.15
StoredCandidates ==
  {i \in DOMAIN rFiles :
     /\ rFiles[i].filename # Get(rTarget).filename
     /\ IsSome(rFiles[i].embedding)
     /\ Len(Get(rFiles[i].embedding)) = Len(Get(Get(rTarget).embedding))
     /\ SimGt(cosineSimilarity(Get(Get(rTarget).embedding), Get(rFiles[i].embedding)),
              15, 100)}

\* vector search is on and the target has a non-empty stored embedding
StoredTargetRequest ==
  /\ IsSome(rOut)
  /\ Get(rOut).via = "call"
  /\ rUseVector
  /\ IsSome(rTarget)
  /\ IsSome(Get(rTarget).embedding)
  /\ Len(Get(Get(rTarget).embedding)) > 0

\* the result is the candidates above the gate, by descending similarity,
\* truncated to 5, produced by the vector path alone
ExactlyStoredCandidates ==
  LET rec == Get(rOut).rec
      kept == rec.kept
      SimOfFile(i) == cosineSimilarity(Get(Get(rTarget).embedding), Get(rFiles[i].embedding))
  IN /\ rec.path = "vector"
     /\ rec.genCalls = 0
     /\ Len(kept) = Min(Cardinality(StoredCandidates), 5)
     /\ \A k \in DOMAIN kept : \E i \in StoredCandidates : kept[k].file = rFiles[i]
     /\ \A k, l \in DOMAIN kept : k # l => kept[k].file.filename # kept[l].file.filename
     /\ \A k \in 1 .. (Len(kept) - 1) : ~SimLess(kept[k].similarity, kept[k + 1].similarity)
     /\ \A i \in StoredCandidates :
          (\A k \in DOMAIN kept : kept[k].file # rFiles[i])
            => \A k \in DOMAIN kept : ~SimLess(kept[k].similarity, SimOfFile(i))
     /\ Get(rOut).recommendations =
          [k \in DOMAIN kept |-> [filename |-> kept[k].file.filename,
                                  info |-> kept[k].file.info]]

C25_ProviderAtMostOnceForTarget ==
  IsSome(rOut) =>
    LET rec == Get(rOut).rec
    IN /\ rec.genCalls <= 1
       /\ rec.genCalls = 1 =>
            /\ rUseVector
            /\ IsSome(rTarget)
            /\ IsSome(Get(rTarget).info)
            /\ ~IsSome(Get(rTarget).embedding)
       /\ rec.path = "vector" => rec.genCalls = 0
       /\ ~rUseVector => rec.genCalls = 0

\* a request generated one embedding, for the target, and answered with the
\* candidate whose stored embedding is close to it
C25_Witness ==
  /\ IsSome(rOut)
  /\ Get(rOut).via = "route"
  /\ Get(rOut).rec.genCalls = 1
  /\ Get(rOut).rec.path = "generated"
  /\ Len(Get(rOut).rec.kept) = 1
  /\ IsSome(Get(rOut).rec.kept[1].file.embedding)

(***************************************************************************)
(* api/search: GET handler, scoring of one request.                        *)
(***************************************************************************)
\* variant of the validation that does not trim
InvalidQueryNoTrim(query) == ~IsSome(query) \/ Len(Get(query)) = 0

\* !query || query.trim().length === 0
InvalidQuery(query) == ~IsSome(query) \/ Len(trim(Get(query))) = 0

\* str?.toLowerCase().includes(qLower)
StrIncludes(str, qLower) == IsSome(str) /\ includes(toLowerCase(Get(str)), qLower)

\* arr?.some(x => x.toLowerCase().includes(qLower))
SomeIncludes(arr, qLower) ==
  IsSome(arr) /\ \E i \in DOMAIN Get(arr) : includes(toLowerCase(Get(arr)[i]), qLower)

\* filenameMatch, summaryMatch, highlightsMatch, tagsMatch, objectsMatch,
\* sceneMatch, captionMatch, ocrMatch, scenesMatch, actionsMatch,
\* columnsMatch, csvStatsMatch
FieldMatches(filename, info, qLower) ==
  LET i == IF IsSome(info) THEN Get(info) ELSE NoInfo
  IN <<includes(toLowerCase(filename), qLower),
       StrIncludes(i.summary, qLower),
       SomeIncludes(i.highlights, qLower),
       SomeIncludes(i.tags, qLower),
       SomeIncludes(i.objects, qLower),
       StrIncludes(i.scene, qLower),
       StrIncludes(i.caption, qLower),
       StrIncludes(i.ocrText, qLower),
       SomeIncludes(i.scenes, qLower),
       SomeIncludes(i.actions, qLower),
       SomeIncludes(i.columns, qLower),
       SomeIncludes(i.numericStats, qLower)>>

HasMatch(m) == \E k \in DOMAIN m : m[k]

MatchCount(m) == Cardinality({k \in DOMAIN m : m[k]})

\* the additive keyword bonuses of stage 1, in hundredths
Bonuses == <<30, 20, 15, 10, 15, 10, 15, 10, 15, 15, 10, 10>>

RECURSIVE BonusFrom(_, _)
BonusFrom(m, k) ==
  IF k > Len(m) THEN 0 ELSE (IF m[k] THEN Bonuses[k] ELSE 0) + BonusFrom(m, k + 1)

KeywordBonus(m) == BonusFrom(m, 1)

\* the least r with r * r >= n
Root(n) == CHOOSE r \in 0 .. n : r * r >= n /\ \A q \in 0 .. (r - 1) : q * q < n

\* a similarity as a score in hundredths
SimToHundredths(sim) ==
  IF sim.nan THEN NaN ELSE (sim.sgn * 100 * Root(sim.num)) \div Root(sim.den)

ScoreAdd(x, y) == IF x = NaN THEN NaN ELSE x + y

ScoreGt(x, n) == x # NaN /\ x > n

\* b.similarity - a.similarity > 0; a NaN difference orders nothing
ScoreLess(a, b) == a # NaN /\ b # NaN /\ a < b

RECURSIVE InsertBySearchScore(_, _)
InsertBySearchScore(x, sorted) ==
  IF sorted = <<>> THEN <<x>>
  ELSE IF ScoreLess(Head(sorted).similarity, x.similarity) THEN <<x>> \o sorted
  ELSE <<Head(sorted)>> \o InsertBySearchScore(x, Tail(sorted))

RECURSIVE SortBySearchScore(_)
SortBySearchScore(items) ==
  IF items = <<>> THEN <<>>
  ELSE InsertBySearchScore(items[Len(items)],
                           SortBySearchScore(SubSeq(items, 1, Len(items) - 1)))

Stage1PageLimit == 200

Stage2PageLimit == 50

\* the rows with a non-null embedding, or those with a null one, in table order
RECURSIVE SelectRows(_, _)
SelectRows(store, withEmbedding) ==
  IF store = <<>> THEN <<>>
  ELSE IF IsSome(Head(store).embedding) = withEmbedding
       THEN <<Head(store)>> \o SelectRows(Tail(store), withEmbedding)
       ELSE SelectRows(Tail(store), withEmbedding)

\* .not('embedding', 'is', null).limit(200)
RowsWithEmbedding(store) == Slice(SelectRows(store, TRUE), Stage1PageLimit)

\* .is('embedding', null).limit(50)
RowsWithoutEmbedding(store) == Slice(SelectRows(store, FALSE), Stage2PageLimit)

\* .limit(limit * 10)
AllRows(store, limit) == Slice(store, limit * 10)

\* similarity of one stage-1 row: 0 without a valid embedding
Stage1Similarity(queryEmbedding, file) ==
  IF IsSome(file.embedding) /\ Len(Get(file.embedding)) > 0
  THEN SimToHundredths(cosineSimilarity(queryEmbedding, Get(file.embedding)))
  ELSE 0

SearchItem(file, score, matchType) ==
  [filename |-> file.filename, info |-> file.info, similarity |-> score,
   matchType |-> matchType]

\* variant that keeps a row on its score alone
RECURSIVE Stage1KeptByScoreOnly(_, _, _)
Stage1KeptByScoreOnly(qLower, queryEmbedding, files) ==
  IF files = <<>> THEN <<>>
  ELSE LET file == Head(files)
           m == FieldMatches(file.filename, file.info, qLower)
           score == ScoreAdd(Stage1Similarity(queryEmbedding, file), KeywordBonus(m))
           rest == Stage1KeptByScoreOnly(qLower, queryEmbedding, Tail(files))
       IN IF ScoreGt(score, 5)
          THEN <<SearchItem(file, score, IF HasMatch(m) THEN "hybrid" ELSE "vector")>> \o rest
          ELSE rest

\* stage 1: the rows kept, scored, before sort and slice
RECURSIVE Stage1Kept(_, _, _)
Stage1Kept(qLower, queryEmbedding, files) ==
  IF files = <<>> THEN <<>>
  ELSE LET file == Head(files)
           m == FieldMatches(file.filename, file.info, qLower)
           score == ScoreAdd(Stage1Similarity(queryEmbedding, file), KeywordBonus(m))
           rest == Stage1Kept(qLower, queryEmbedding, Tail(files))
       IN IF ScoreGt(score, 5) \/ HasMatch(m)
          THEN <<SearchItem(file, score, IF HasMatch(m) THEN "hybrid" ELSE "vector")>> \o rest
          ELSE rest

AllScoredFiles(query, queryEmbedding, files, limit) ==
  Slice(SortBySearchScore(Stage1Kept(toLowerCase(query), queryEmbedding, files)), limit)

\* stage 2: the score of a keyword-only match
Stage2Score(m) ==
  IF m[1] /\ m[2] THEN 60
  ELSE IF m[1] THEN 50
  ELSE IF MatchCount(m) > 0 THEN 40 + 3 * MatchCount(m)
  ELSE 40

\* variant that scores the fallback with the rule of stage 2
FallbackScoreAsStage2(m) == Stage2Score(m)

\* stage 3 and the local scan: the score of a keyword match
FallbackScore(m) ==
  IF m[1] /\ m[2] THEN 70
  ELSE IF m[1] THEN 60
  ELSE IF MatchCount(m) > 0 THEN 50 + 5 * MatchCount(m)
  ELSE 50

RECURSIVE KeywordOnlyFrom(_, _)
KeywordOnlyFrom(qLower, files) ==
  IF files = <<>> THEN <<>>
  ELSE LET file == Head(files)
           m == FieldMatches(file.filename, file.info, qLower)
           rest == KeywordOnlyFrom(qLower, Tail(files))
       IN IF HasMatch(m) THEN <<SearchItem(file, Stage2Score(m), "keyword")>> \o rest
          ELSE rest

KeywordOnlyResults(query, files) == KeywordOnlyFrom(toLowerCase(query), files)

\* variant of the merge that keeps every occurrence
UniqueResultsKeepAll(allResults) == allResults

\* allResults.filter((item, index, self) =>
\*   index === self.findIndex(t => t.filename === item.filename))
UniqueResults(allResults) ==
  LET first == {i \in DOMAIN allResults :
                  \A j \in 1 .. (i - 1) : allResults[j].filename # allResults[i].filename}
      RECURSIVE Pick(_)
      Pick(i) == IF i > Len(allResults) THEN <<>>
                 ELSE (IF i \in first THEN <<allResults[i]>> ELSE <<>>) \o Pick(i + 1)
  IN Pick(1)

SortedResults(allScoredFiles, keywordOnlyResults, limit) ==
  Slice(SortBySearchScore(UniqueResults(allScoredFiles \o keywordOnlyResults)), limit)

\* stage 3: every row scored; nothing is filtered out by similarity > 0
RECURSIVE Stage3From(_, _)
Stage3From(qLower, files) ==
  IF files = <<>> THEN <<>>
  ELSE LET file == Head(files)
           m == FieldMatches(file.filename, file.info, qLower)
           item == [filename |-> file.filename, info |-> file.info,
                    similarity |-> FallbackScore(m), matchType |-> "keyword",
                    hasEmbedding |-> IsSome(file.embedding)]
           rest == Stage3From(qLower, Tail(files))
       IN IF item.similarity > 0 THEN <<item>> \o rest ELSE rest

Stage3Results(query, files, limit) ==
  Slice(SortBySearchScore(Stage3From(toLowerCase(query), files)), limit)

\* the local scan: the uploads that have a cached metadata file, until
\* results.length >= limit * 2
RECURSIVE LocalLoop(_, _, _, _)
LocalLoop(qLower, entries, limit, results) ==
  IF entries = <<>> THEN results
  ELSE LET e == Head(entries)
           m == FieldMatches(e.filename, e.info, qLower)
           pushed == IF IsSome(e.info) /\ HasMatch(m)
                     THEN Append(results, SearchItem(e, FallbackScore(m), "keyword"))
                     ELSE results
       IN IF IsSome(e.info) /\ Len(pushed) >= limit * 2 THEN pushed
          ELSE LocalLoop(qLower, Tail(entries), limit, pushed)

LocalResults(query, entries, limit) ==
  Slice(SortBySearchScore(LocalLoop(toLowerCase(query), entries, limit, <<>>)), limit)

\* the JSON responses
SearchResponse(status, results, vectorSearch, hybrid, fallback) ==
  [status |-> status, results |-> results, vectorSearch |-> vectorSearch,
   hybrid |-> hybrid, fallback |-> fallback]

BadRequest == SearchResponse(400, <<>>, None, FALSE, FALSE)

ServerError == SearchResponse(500, <<>>, None, FALSE, FALSE)

(***************************************************************************)
(* Specification of search requests: the handler step by step, with the    *)
(* writes other requests make to the table between its two reads.          *)
(***************************************************************************)
S_b == <<"b">>

S_B == <<"B">>

S_c == <<"c">>

S_ab == <<"a", " ", "b">>

\* an embedded row whose filename and summary hold "a"
Row_a ==
  [filename |-> S_a, info |-> Some([NoInfo EXCEPT !.summary = Some(S_ab)]),
   embedding |-> Some(<<1, 0>>)]

\* a row of the same filename, not yet processed
Row_aNew == [filename |-> S_a, info |-> None, embedding |-> None]

\* a row without embedding, tagged "a"
Row_bTags ==
  [filename |-> S_b, info |-> Some([NoInfo EXCEPT !.tags = Some(<<S_a>>)]),
   embedding |-> None]

\* an embedded row that matches no keyword but "b"
Row_b == [filename |-> S_b, info |-> Some(NoInfo), embedding |-> Some(<<3, 4>>)]

\* an embedded row orthogonal to the query vector
Row_c == [filename |-> S_c, info |-> Some(NoInfo), embedding |-> Some(<<0, 1>>)]

S_ca == <<"c", "a">>

\* a row without embedding whose filename alone holds "a"
Row_ca == [filename |-> S_ca, info |-> Some(NoInfo), embedding |-> None]

\* a row whose tags hold "a" and whose embedding points away from the query's
Row_cNeg == [filename |-> S_c, info |-> Some([NoInfo EXCEPT !.tags = Some(<<S_a>>)]),
             embedding |-> Some(<<-1, 0>>)]

SearchRows == {Row_a, Row_aNew, Row_bTags, Row_b, Row_c, Row_ca, Row_cNeg}

Stores == SeqsUpTo(SearchRows, MaxRows)

Queries == {None, Some(S_empty), Some(S_space), Some(S_a), Some(S_B)}

Limits == {1, 10}

\* generateEmbedding throws, or resolves to null, an empty array, a vector,
\* a vector of another model's length, a vector with a non-finite element,
\* or never settles
QueryEmbeddingOutcomes ==
  {[threw |-> TRUE, value |-> None, pending |-> FALSE]}
  \cup {[threw |-> FALSE, value |-> v, pending |-> FALSE] :
          v \in {None, Some(<<>>), Some(<<1, 0>>), Some(<<1>>), Some(<<NaN, 0>>)}}
  \cup {[threw |-> FALSE, value |-> None, pending |-> TRUE]}

\* a store query resolves with data, resolves with an error, throws, or
\* never settles
QueryOutcomes == {"data", "error", "throws", "pending"}

\* the uploads directory is missing, can be listed, or cannot be read
DirOutcomes == {"missing", "listed", "unreadable"}

SearchInit ==
  /\ sStore \in Stores
  /\ sQuery = None
  /\ sLimit = 0
  /\ sPc = "idle"
  /\ sQueryEmbedding = None
  /\ sSupabase = FALSE
  /\ sScored = <<>>
  /\ sKeywordOnly = <<>>
  /\ sCalls = NoCalls
  /\ sWrites = 0
  /\ sResp = None
  /\ sStages = <<>>
  /\ CosineIdle
  /\ TextIdle
  /\ RecIdle
  /\ LibIdle

SearchUnchanged == UNCHANGED <<cosineVars, textVars, recVars, libVars>>

\* the request arrives and is validated
ReceiveSearch ==
  /\ sPc = "idle"
  /\ \E query \in Queries, limit \in Limits :
       /\ sQuery' = query
       /\ sLimit' = limit
       /\ IF InvalidQuery(query)
          THEN sPc' = "done" /\ sResp' = Some(BadRequest)
          ELSE sPc' = "embedding" /\ sResp' = None
  /\ UNCHANGED <<sStore, sQueryEmbedding, sSupabase, sScored, sKeywordOnly, sCalls, sWrites,
                 sStages>>
  /\ SearchUnchanged

\* await generateEmbedding(query, provider, model), then supabaseServer()
GenerateQueryEmbedding ==
  /\ sPc = "embedding"
  /\ \E out \in QueryEmbeddingOutcomes, client \in BOOLEAN :
       /\ sQueryEmbedding' = out.value
       /\ sSupabase' = client
       /\ sPc' = IF out.pending THEN "waiting"
                 ELSE IF client /\ IsSome(out.value) /\ Len(Get(out.value)) > 0 THEN "stage1"
                 ELSE IF client THEN "stage3"
                 ELSE "local"
  /\ sCalls' = [sCalls EXCEPT !.embedding = @ + 1]
  /\ UNCHANGED <<sStore, sQuery, sLimit, sScored, sKeywordOnly, sWrites, sResp, sStages>>
  /\ SearchUnchanged

\* stage 1: the rows with an embedding are read and scored
Stage1Read ==
  /\ sPc = "stage1"
  /\ \E outcome \in QueryOutcomes :
       LET files == RowsWithEmbedding(sStore)
       IN IF outcome = "data" /\ files # <<>>
          THEN /\ sScored' = AllScoredFiles(Get(sQuery), Get(sQueryEmbedding), files, sLimit)
               /\ sPc' = "stage2"
          ELSE /\ sScored' = <<>>
               /\ sPc' = IF outcome = "pending" THEN "waiting" ELSE "stage3"
  /\ sCalls' = [sCalls EXCEPT !.store = @ + 1]
  /\ sStages' = Append(sStages, "stage1")
  /\ UNCHANGED <<sStore, sQuery, sLimit, sQueryEmbedding, sSupabase, sKeywordOnly,
                 sWrites, sResp>>
  /\ SearchUnchanged

\* stage 2: the rows without embedding are read, scored by keyword and
\* merged; the response of stages 1-2 is sent
Stage2Read ==
  /\ sPc = "stage2"
  /\ \E outcome \in QueryOutcomes :
       LET files == RowsWithoutEmbedding(sStore)
           keywordOnlyResults == IF outcome = "data"
                                 THEN KeywordOnlyResults(Get(sQuery), files) ELSE <<>>
       IN /\ sKeywordOnly' = keywordOnlyResults
          /\ sResp' = IF outcome = "pending" THEN None
                      ELSE IF keywordOnlyResults # <<>>
                      THEN Some(SearchResponse(200,
                                  SortedResults(sScored, keywordOnlyResults, sLimit),
                                  Some(TRUE), TRUE, FALSE))
                      ELSE Some(SearchResponse(200, sScored, Some(TRUE), FALSE, FALSE))
          /\ sPc' = IF outcome = "pending" THEN "waiting" ELSE "done"
  /\ sCalls' = [sCalls EXCEPT !.store = @ + 1]
  /\ sStages' = Append(sStages, "stage2")
  /\ UNCHANGED <<sStore, sQuery, sLimit, sQueryEmbedding, sSupabase, sScored, sWrites>>
  /\ SearchUnchanged

\* stage 3: keyword search over the rows of the table
Stage3Read ==
  /\ sPc = "stage3"
  /\ \E outcome \in QueryOutcomes :
       LET files == AllRows(sStore, sLimit)
       IN IF outcome = "data" /\ files # <<>>
          THEN /\ sResp' = Some(SearchResponse(200, Stage3Results(Get(sQuery), files, sLimit),
                                               Some(FALSE), FALSE, FALSE))
               /\ sPc' = "done"
          ELSE /\ sResp' = None
               /\ sPc' = IF outcome = "pending" THEN "waiting" ELSE "local"
  /\ sCalls' = [sCalls EXCEPT !.store = @ + 1]
  /\ sStages' = Append(sStages, "stage3")
  /\ UNCHANGED <<sStore, sQuery, sLimit, sQueryEmbedding, sSupabase, sScored,
                 sKeywordOnly, sWrites>>
  /\ SearchUnchanged

\* the local uploads with their cached metadata
LocalEntries(store) == [i \in DOMAIN store |-> [filename |-> store[i].filename,
                                                info |-> store[i].info]]

\* keyword search over the local uploads
LocalScan ==
  /\ sPc = "local"
  /\ \E dir \in DirOutcomes :
       sResp' = IF dir = "missing" THEN Some(SearchResponse(200, <<>>, None, FALSE, FALSE))
                ELSE IF dir = "unreadable" THEN Some(ServerError)
                ELSE Some(SearchResponse(200,
                            LocalResults(Get(sQuery), LocalEntries(sStore), sLimit),
                            Some(FALSE), FALSE, TRUE))
  /\ sPc' = "done"
  /\ sStages' = Append(sStages, "local")
  /\ UNCHANGED <<sStore, sQuery, sLimit, sQueryEmbedding, sSupabase, sScored,
                 sKeywordOnly, sCalls, sWrites>>
  /\ SearchUnchanged

WriteUnchanged ==
  UNCHANGED <<sQuery, sLimit, sPc, sQueryEmbedding, sSupabase, sScored, sKeywordOnly,
              sCalls, sResp, sStages>>

\* an upload inserts a row, without embedding, between the two reads
UploadInsert ==
  /\ sPc = "stage2"
  /\ sWrites < MaxWrites
  /\ Len(sStore) < MaxRows + MaxWrites
  /\ sStore' = Append(sStore, Row_aNew)
  /\ sWrites' = sWrites + 1
  /\ WriteUnchanged
  /\ SearchUnchanged

\* storeEmbeddingInDB: update({embedding}).eq('filename', filename)
StoreEmbeddingInDB ==
  /\ sPc = "stage2"
  /\ sWrites < MaxWrites
  /\ \E i \in DOMAIN sStore :
       /\ ~IsSome(sStore[i].embedding)
       /\ sStore' = [j \in DOMAIN sStore |->
                       IF sStore[j].filename = sStore[i].filename
                       THEN [sStore[j] EXCEPT !.embedding = Some(<<1, 0>>)]
                       ELSE sStore[j]]
  /\ sWrites' = sWrites + 1
  /\ WriteUnchanged
  /\ SearchUnchanged

\* the rows of a store without those of one filename
RECURSIVE WithoutFilename(_, _)
WithoutFilename(store, filename) ==
  IF store = <<>> THEN <<>>
  ELSE IF Head(store).filename = filename THEN WithoutFilename(Tail(store), filename)
  ELSE <<Head(store)>> \o WithoutFilename(Tail(store), filename)

\* delete().eq('filename', filename)
DeleteFile ==
  /\ sPc = "stage2"
  /\ sWrites < MaxWrites
  /\ \E i \in DOMAIN sStore : sStore' = WithoutFilename(sStore, sStore[i].filename)
  /\ sWrites' = sWrites + 1
  /\ WriteUnchanged
  /\ SearchUnchanged

SearchNext ==
  \/ ReceiveSearch
  \/ GenerateQueryEmbedding
  \/ Stage1Read
  \/ Stage2Read
  \/ Stage3Read
  \/ LocalScan
  \/ UploadInsert
  \/ StoreEmbeddingInDB
  \/ DeleteFile

SpecSearch == SearchInit /\ [][SearchNext]_vars

\* the q parameter is missing, empty or only whitespace
BlankQuery ==
  \/ ~IsSome(sQuery)
  \/ \A i \in DOMAIN Get(sQuery) : IsSpace(Get(sQuery)[i])

\* C8: a request whose query is missing, empty or only whitespace is answered
\* with status 400, and no embedding-provider call or store query has been
\* made for it.
C8_BlankQueryRejectedFirst ==
  (sPc # "idle" /\ BlankQuery) =>
    /\ sPc = "done"
    /\ IsSome(sResp)
    /\ Get(sResp).status = 400
    /\ sCalls = NoCalls

C8_Witness ==
  /\ sQuery = Some(S_space)
  /\ sStore # <<>>
  /\ IsSome(sResp)
  /\ Get(sResp).status = 400

\* the response merges stage 1 and stage 2
MergedResponse == IsSome(sResp) /\ Get(sResp).hybrid

\* the first entry of the concatenation of both stages with the given filename
FirstOccurrence(filename) ==
  LET allResults == sScored \o sKeywordOnly
  IN allResults[CHOOSE i \in DOMAIN allResults :
                  /\ allResults[i].filename = filename
                  /\ \A j \in 1 .. (i - 1) : allResults[j].filename # filename]

\* C9: in a response that merges stage 1 and stage 2 no filename appears
\* twice, and each result is the first occurrence of its filename in the
\* stage-1 results followed by the stage-2 results.
C9_MergedNoDuplicateFirstWins ==
  MergedResponse =>
    LET results == Get(sResp).results
    IN /\ \A i, j \in DOMAIN results :
            results[i].filename = results[j].filename => i = j
       /\ \A i \in DOMAIN results : results[i] = FirstOccurrence(results[i].filename)

C9_Witness ==
  /\ MergedResponse
  /\ \E i \in DOMAIN sScored, j \in DOMAIN sKeywordOnly, k \in DOMAIN Get(sResp).results :
       /\ sScored[i].filename = sKeywordOnly[j].filename
       /\ Get(sResp).results[k] = sScored[i]

\* C10 as stated: a request with a non-empty query is never answered with
\* an error, whatever fails; it ends with a result set.
C10_Original ==
  (sPc = "done" /\ ~BlankQuery) => Get(sResp).status = 200

\* a result that stage 1 scored is in the response
Stage1Contributed ==
  \E i \in DOMAIN Get(sResp).results : Get(sResp).results[i].matchType # "keyword"

\* C11 as stated: every result-set response to a valid query carries a
\* boolean vectorSearch flag, and the flag is true exactly when stage 1
\* contributed to the results.
C11_Original ==
  (sPc = "done" /\ ~BlankQuery /\ Get(sResp).status = 200) =>
    /\ IsSome(Get(sResp).vectorSearch)
    /\ Get(Get(sResp).vectorSearch) <=> Stage1Contributed

\* no usable query embedding was generated
NoQueryEmbedding == ~IsSome(sQueryEmbedding) \/ Len(Get(sQueryEmbedding)) = 0

\* the response of the store keyword fallback, and that of the local one
StoreFallbackResponse ==
  /\ sPc = "done"
  /\ Get(sResp).status = 200
  /\ Get(sResp).vectorSearch = Some(FALSE)
  /\ ~Get(sResp).fallback

LocalFallbackResponse == sPc = "done" /\ Get(sResp).status = 200 /\ Get(sResp).fallback

\* the query is a substring of the filename, letter case aside
FilenameHasQuery(filename) == includes(toLowerCase(filename), toLowerCase(Get(sQuery)))

\* the response returns the item as a keyword match scored at least 0.6
ReturnedAsKeyword(file) ==
  \E k \in DOMAIN Get(sResp).results :
    LET r == Get(sResp).results[k]
    IN /\ r.filename = file.filename
       /\ r.info = file.info
       /\ r.matchType = "keyword"
       /\ r.similarity >= 60

\* C12 as stated: without a query embedding, the store keyword fallback
\* returns every row whose filename holds the query, with matchType
\* "keyword" and a score of at least 0.6.
C12_Original ==
  (~BlankQuery /\ NoQueryEmbedding /\ StoreFallbackResponse) =>
    \A i \in DOMAIN sStore :
      FilenameHasQuery(sStore[i].filename) =>
        \E k \in DOMAIN Get(sResp).results :
          /\ Get(sResp).results[k].filename = sStore[i].filename
          /\ Get(sResp).results[k].matchType = "keyword"
          /\ Get(sResp).results[k].similarity >= 60

\* C12 amended: without a query embedding the request never runs stage 1;
\* the store keyword fallback returns a row whose filename holds the query as
\* a keyword match scored at least 0.6 unless the response is already full
\* of `limit` items scored at least 0.6, and the local fallback does so for
\* an upload with cached metadata unless the response is already full.
C12_FilenameMatchUnlessFull ==
  (sPc = "done" /\ ~BlankQuery /\ NoQueryEmbedding) =>
    /\ sScored = <<>>
    /\ Get(sResp).vectorSearch # Some(TRUE)
    /\ StoreFallbackResponse =>
         \A i \in DOMAIN AllRows(sStore, sLimit) :
           FilenameHasQuery(sStore[i].filename) =>
             \/ ReturnedAsKeyword(sStore[i])
             \/ /\ Len(Get(sResp).results) = sLimit
                /\ \A k \in DOMAIN Get(sResp).results : Get(sResp).results[k].similarity >= 60
    /\ LocalFallbackResponse =>
         \A i \in DOMAIN sStore :
           (IsSome(sStore[i].info) /\ FilenameHasQuery(sStore[i].filename)) =>
             \/ ReturnedAsKeyword(sStore[i])
             \/ Len(Get(sResp).results) = sLimit

C12_Witness ==
  /\ ~BlankQuery
  /\ NoQueryEmbedding
  /\ StoreFallbackResponse
  /\ \E i \in DOMAIN sStore :
       /\ FilenameHasQuery(sStore[i].filename)
       /\ ReturnedAsKeyword(sStore[i])
  /\ \E i \in DOMAIN sStore :
       /\ FilenameHasQuery(sStore[i].filename)
       /\ ~\E k \in DOMAIN Get(sResp).results :
              Get(sResp).results[k].filename = sStore[i].filename

\* C15 as stated, for the search route: every vector that stage 1 passes to
\* cosineSimilarity as the query embedding is non-empty and has only finite
\* elements.
C15_Original ==
  (sPc = "stage2") =>
    /\ Len(Get(sQueryEmbedding)) > 0
    /\ \A i \in DOMAIN Get(sQueryEmbedding) : IsFinite(Get(sQueryEmbedding)[i])

\* the full keyword fallback was executed: its store read or its local scan
Stage3Executed == "stage3" \in Range(sStages) \/ "local" \in Range(sStages)

\* C18 as stated: when a request with a valid query has been answered, the
\* full keyword fallback was executed exactly when no query embedding was
\* generated or stages 1-2 produced no result.
C18_Original ==
  (sPc = "done" /\ ~BlankQuery) =>
    (Stage3Executed <=> (NoQueryEmbedding \/ (sScored = <<>> /\ sKeywordOnly = <<>>)))

\* C19 as stated: every item returned by the store keyword fallback matches
\* the query in at least one keyword field.
C19_Original ==
  (sPc = "done" /\ StoreFallbackResponse) =>
    \A i \in DOMAIN Get(sResp).results :
      LET item == Get(sResp).results[i]
      IN HasMatch(FieldMatches(item.filename, item.info, toLowerCase(Get(sQuery))))

\* the rows of the table that a stage-1 result was computed from
RowsOfResult(item) ==
  {i \in DOMAIN sStore : /\ IsSome(sStore[i].embedding)
                         /\ sStore[i].filename = item.filename
                         /\ sStore[i].info = item.info}

\* the matchType the three-way rule gives a row
ExpectedMatchType(file) ==
  LET similarity == Stage1Similarity(Get(sQueryEmbedding), file)
      matched == HasMatch(FieldMatches(file.filename, file.info, toLowerCase(Get(sQuery))))
  IN IF ScoreGt(similarity, 0) /\ matched THEN "hybrid"
     ELSE IF ScoreGt(similarity, 0) THEN "vector"
     ELSE "keyword"

\* C21 as stated: a stage-1 result is "hybrid" when a positive similarity
\* and a keyword match both contributed, "vector" when only the similarity
\* did, and "keyword" otherwise.
C21_Original ==
  (sPc = "stage2" /\ sWrites = 0) =>
    \A k \in DOMAIN sScored :
      \A i \in RowsOfResult(sScored[k]) : sScored[k].matchType = ExpectedMatchType(sStore[i])

\* the field matches and the hybrid score of a row for the request
RowMatches(file) == FieldMatches(file.filename, file.info, toLowerCase(Get(sQuery)))

HybridScore(file) ==
  ScoreAdd(Stage1Similarity(Get(sQueryEmbedding), file), KeywordBonus(RowMatches(file)))

\* the embedded rows whose score is above 0.05 or that match a keyword field
KeepRuleRows ==
  {i \in DOMAIN sStore : /\ IsSome(sStore[i].embedding)
                         /\ ScoreGt(HybridScore(sStore[i]), 5) \/ HasMatch(RowMatches(sStore[i]))}

\* a stage-1 result is the scored row i
ResultOfRow(item, i) ==
  /\ item.filename = sStore[i].filename
  /\ item.info = sStore[i].info
  /\ item.similarity = HybridScore(sStore[i])

NonIncreasing(results) ==
  \A k \in 1 .. (Len(results) - 1) :
    /\ results[k].similarity # NaN
    /\ results[k + 1].similarity # NaN
    /\ results[k].similarity >= results[k + 1].similarity

\* C23 as stated: every search response lists at most limit results, in
\* non-increasing score order.
C23_Original ==
  (sPc = "done" /\ Get(sResp).status = 200) =>
    /\ Len(Get(sResp).results) <= sLimit
    /\ NonIncreasing(Get(sResp).results)

\* the same for requests whose query embedding has only finite elements
C23_FiniteScores ==
  (sPc = "done" /\ Get(sResp).status = 200
     /\ (IsSome(sQueryEmbedding) =>
           \A i \in DOMAIN Get(sQueryEmbedding) : IsFinite(Get(sQueryEmbedding)[i]))) =>
    /\ Len(Get(sResp).results) <= sLimit
    /\ NonIncreasing(Get(sResp).results)

\* the steps of the request handler; the runtime resumes the handler
\* whenever the call it awaits has settled
SearchRequestStep ==
  \/ ReceiveSearch
  \/ GenerateQueryEmbedding
  \/ Stage1Read
  \/ Stage2Read
  \/ Stage3Read
  \/ LocalScan

SpecSearchLive == SearchInit /\ [][SearchNext]_vars /\ WF_vars(SearchRequestStep)

\* C17 as stated: every search request with a valid query eventually
\* responds, also when the embedding provider or the store never answers.
C17_Original == (sPc = "embedding") ~> (sPc = "done")

(***************************************************************************)
(* lib/embeddings: generateEmbedding and its two strategies.               *)
(***************************************************************************)
RECURSIVE SumSquares(_)
SumSquares(v) == IF v = <<>> THEN 0 ELSE FAdd(FMul(Head(v), Head(v)), SumSquares(Tail(v)))

\* embedding.map(val => val / magnitude) when magnitude > 0; a NaN
\* magnitude is not > 0.  The vectors used have an integer magnitude that
\* divides their elements.
NormalizeOutput(v) ==
  LET sum == SumSquares(v)
  IN IF sum = NaN \/ sum = 0 THEN v
     ELSE [i \in DOMAIN v |-> v[i] \div Root(sum)]

\* generateEmbeddingOnDevice; device holds the outcome of the import, of the
\* model loading (preferred, fallback or none), of the inference, and the
\* raw output
generateEmbeddingOnDevice(device) ==
  IF device.import = "throws" \/ device.load = "none" \/ device.run = "throws" THEN None
  ELSE LET embedding == NormalizeOutput(device.output)
       IN IF Len(embedding) > 0 THEN Some(embedding) ELSE None

\* the try/catch around the body of generateEmbeddingWithOpenRouter
RemoteErrorsCaught == TRUE

\* a step of the remote strategy throws: fetch, response.text() or
\* response.json()
RemoteThrows(remote) ==
  /\ remote.key
  /\ \/ remote.fetch = "throws"
     \/ remote.fetch = "notok" /\ remote.text = "throws"
     \/ remote.fetch = "ok" /\ remote.json = "throws"

\* the remote strategy does not deliver: no credential, a step throws, a
\* non-success response, or a body without an embedding array
RemoteFails(remote) ==
  \/ ~remote.key
  \/ RemoteThrows(remote)
  \/ remote.fetch = "notok"
  \/ ~remote.body.present
  \/ ~remote.body.isArray

EmbedResult(value, source, threw) == [value |-> value, source |-> source, threw |-> threw]

\* variant that answers "no embedding" instead of falling back
generateEmbeddingWithOpenRouterNoFallback(remote, device) ==
  IF RemoteFails(remote) THEN EmbedResult(None, "remote", FALSE)
  ELSE EmbedResult(Some(remote.body.value), "remote", FALSE)

\* generateEmbeddingWithOpenRouter
generateEmbeddingWithOpenRouter(remote, device) ==
  IF RemoteThrows(remote) /\ ~RemoteErrorsCaught THEN EmbedResult(None, "remote", TRUE)
  ELSE IF RemoteFails(remote)
       THEN EmbedResult(generateEmbeddingOnDevice(device), "ondevice", FALSE)
  ELSE EmbedResult(Some(remote.body.value), "remote", FALSE)

\* generateEmbedding(text, provider, model)
generateEmbedding(provider, remote, device) ==
  IF provider = "openrouter" THEN generateEmbeddingWithOpenRouter(remote, device)
  ELSE EmbedResult(generateEmbeddingOnDevice(device), "ondevice", FALSE)

(***************************************************************************)
(* Specification of generateEmbedding calls under one requested            *)
(* (provider, model).                                                      *)
(***************************************************************************)
Body(present, isArray, value) == [present |-> present, isArray |-> isArray, value |-> value]

Remote(key, fetch, text, json, body) ==
  [key |-> key, fetch |-> fetch, text |-> text, json |-> json, body |-> body]

GoodBody == Body(TRUE, TRUE, <<1, 0>>)

\* the outcomes of the remote strategy's steps
RemoteOutcomes ==
  {Remote(FALSE, "ok", "ok", "ok", GoodBody),
   Remote(TRUE, "throws", "ok", "ok", GoodBody),
   Remote(TRUE, "notok", "ok", "ok", GoodBody),
   Remote(TRUE, "notok", "throws", "ok", GoodBody),
   Remote(TRUE, "ok", "ok", "throws", GoodBody),
   Remote(TRUE, "ok", "ok", "ok", Body(FALSE, FALSE, <<>>)),
   Remote(TRUE, "ok", "ok", "ok", Body(TRUE, FALSE, <<>>)),
   Remote(TRUE, "ok", "ok", "ok", GoodBody),
   Remote(TRUE, "ok", "ok", "ok", Body(TRUE, TRUE, <<>>)),
   Remote(TRUE, "ok", "ok", "ok", Body(TRUE, TRUE, <<NaN, 0>>))}

Device(import, load, run, output) ==
  [import |-> import, load |-> load, run |-> run, output |-> output]

\* the outcomes of the on-device strategy's steps
DeviceOutcomes ==
  {Device("throws", "preferred", "ok", <<2>>),
   Device("ok", "none", "ok", <<2>>),
   Device("ok", "fallback", "ok", <<2>>),
   Device("ok", "preferred", "throws", <<2>>),
   Device("ok", "preferred", "ok", <<2>>),
   Device("ok", "preferred", "ok", <<>>),
   Device("ok", "preferred", "ok", <<0>>),
   Device("ok", "preferred", "ok", <<NaN>>)}

Providers == {"ondevice", "openrouter"}

Models == {None, Some("large")}

EmbedInit ==
  /\ gIn \in [provider : Providers, model : Models]
  /\ gOut = None
  /\ gGenerated = {}
  /\ CosineIdle
  /\ TextIdle
  /\ RecIdle
  /\ SearchIdle
  /\ ReindexIdle
  /\ ScoreIdle
  /\ MoreIdle

\* one call of generateEmbedding with the requested provider and model
CallGenerateEmbedding ==
  /\ \E remote \in RemoteOutcomes, device \in DeviceOutcomes :
       LET result == generateEmbedding(gIn.provider, remote, device)
       IN /\ gOut' = Some([remote |-> remote, device |-> device, result |-> result])
          /\ gGenerated' = IF IsSome(result.value)
                           THEN gGenerated \cup {Get(result.value)} ELSE gGenerated
  /\ UNCHANGED <<gIn, cosineVars, textVars, recVars, searchVars, reindexVars, scoreVars,
                 moreVars>>

EmbedNext == CallGenerateEmbedding

SpecEmbed == EmbedInit /\ [][EmbedNext]_vars

\* C13: with the remote provider, when the credential is missing, the
\* response is not a success, the body is malformed or a step throws, the
\* call does not throw and returns what the on-device strategy returns.
C13_RemoteFailureFallsBack ==
  (IsSome(gOut) /\ gIn.provider = "openrouter" /\ RemoteFails(Get(gOut).remote)) =>
    /\ ~Get(gOut).result.threw
    /\ Get(gOut).result.value = generateEmbeddingOnDevice(Get(gOut).device)

C13_Witness ==
  /\ IsSome(gOut)
  /\ gIn.provider = "openrouter"
  /\ Get(gOut).remote.fetch = "notok"
  /\ Get(gOut).result.value = Some(<<1>>)

\* C14 as stated: any two embeddings generated under the same requested
\* (provider, model) have equal length.
C14_Original == \A a, b \in gGenerated : Len(a) = Len(b)

(***************************************************************************)
(* app/api/reindex: POST.  An item is [filename, info, meta]: a row of the *)
(* files table on the store path, a directory entry with or without its    *)
(* metadata file on the local path.                                        *)
(***************************************************************************)
MaxItems == 2

\* the values generateEmbedding can resolve to
GeneratedValues ==
  {generateEmbedding(provider, remote, device).value :
     provider \in Providers, remote \in RemoteOutcomes, device \in DeviceOutcomes}

\* storeEmbeddingInDB(filename, embedding): the embedding is validated, then
\* written when the client exists; TRUE when the update succeeds
storeEmbeddingInDB(embedding, client, updateOk) ==
  /\ IsSome(embedding)
  /\ Len(Get(embedding)) > 0
  /\ \A i \in DOMAIN Get(embedding) : IsFinite(Get(embedding)[i])
  /\ client
  /\ updateOk

ReindexResult(i, item, status, reason) ==
  [item |-> i, filename |-> item.filename, status |-> status, reason |-> reason]

\* variant that only tests for the empty text
NoContentOnlyEmpty(info) == generateEmbeddingText(info) = <<>>

\* !embeddingText || embeddingText === 'No content available'
NoContent(info) == generateEmbeddingText(info) \in {<<>>, Sentinel}

\* one iteration of the loop over dbFiles
StoreItemResults(i, item, embedding, updateOk) ==
  LET info == IF IsSome(item.info) THEN Get(item.info) ELSE NoInfo
  IN IF NoContent(info) THEN <<ReindexResult(i, item, "skipped", "no_content")>>
     ELSE IF ~IsSome(embedding) \/ Len(Get(embedding)) = 0
     THEN <<ReindexResult(i, item, "failed", "embedding_generation_failed")>>
     ELSE IF storeEmbeddingInDB(embedding, TRUE, updateOk)
     THEN <<ReindexResult(i, item, "updated", "")>>
     ELSE <<ReindexResult(i, item, "error", "storage_failed")>>

\* one iteration of the loop over the directory entries
LocalItemResults(i, item, embedding, client, updateOk, writeOk) ==
  IF ~item.meta \/ ~IsSome(item.info) THEN <<>>
  ELSE IF NoContent(Get(item.info)) THEN <<ReindexResult(i, item, "skipped", "no_content")>>
  ELSE IF ~IsSome(embedding)
  THEN <<ReindexResult(i, item, "failed", "embedding_generation_failed")>>
  ELSE LET db == IF ~client THEN <<>>
                 ELSE IF storeEmbeddingInDB(embedding, client, updateOk)
                 THEN <<ReindexResult(i, item, "updated_db", "")>>
                 ELSE <<ReindexResult(i, item, "error", "embedding_storage_failed")>>
       IN IF ~writeOk THEN db \o <<ReindexResult(i, item, "error", "")>>
          ELSE IF ~client THEN db \o <<ReindexResult(i, item, "updated_local", "")>>
          ELSE db

Item(filename, info, meta) == [filename |-> filename, info |-> info, meta |-> meta]

RI_emptySummary == [NoInfo EXCEPT !.summary = Some(S_empty)]

ReindexItems ==
  {Item(S_a, Some(RI_doc2), TRUE),
   Item(S_b, Some(RI_emptySummary), TRUE),
   Item(S_c, None, TRUE),
   Item(S_ca, Some(RI_doc2), FALSE)}

ReindexRequests ==
  [client : BOOLEAN, db : {"data", "error", "throws"},
   dir : {"missing", "listed", "unreadable"}, items : SeqsUpTo(ReindexItems, MaxItems)]

ReindexInit ==
  /\ xIn \in ReindexRequests
  /\ xIdx = 0
  /\ xResults = <<>>
  /\ xPc = "start"
  /\ CosineIdle
  /\ TextIdle
  /\ RecIdle
  /\ SearchIdle
  /\ EmbedIdle
  /\ ScoreIdle
  /\ MoreIdle

ReindexUnchanged ==
  UNCHANGED <<cosineVars, textVars, recVars, searchVars, embedVars, scoreVars, moreVars>>

\* supabaseServer(), the read of the files table, and the choice of the path
ReindexStart ==
  /\ xPc = "start"
  /\ xPc' = IF xIn.client /\ xIn.db = "data" /\ xIn.items # <<>> THEN "store"
            ELSE IF xIn.dir = "missing" THEN "done"
            ELSE IF xIn.dir = "unreadable" THEN "error"
            ELSE "local"
  /\ xIdx' = 1
  /\ UNCHANGED <<xIn, xResults>>
  /\ ReindexUnchanged

\* for (const file of dbFiles)
ReindexStoreItem ==
  /\ xPc = "store"
  /\ xIdx <= Len(xIn.items)
  /\ \E embedding \in GeneratedValues, updateOk \in BOOLEAN :
       xResults' = xResults \o StoreItemResults(xIdx, xIn.items[xIdx], embedding, updateOk)
  /\ xIdx' = xIdx + 1
  /\ UNCHANGED <<xIn, xPc>>
  /\ ReindexUnchanged

\* for (const name of entries)
ReindexLocalItem ==
  /\ xPc = "local"
  /\ xIdx <= Len(xIn.items)
  /\ \E embedding \in GeneratedValues, updateOk \in BOOLEAN, writeOk \in BOOLEAN :
       xResults' = xResults \o LocalItemResults(xIdx, xIn.items[xIdx], embedding,
                                                xIn.client, updateOk, writeOk)
  /\ xIdx' = xIdx + 1
  /\ UNCHANGED <<xIn, xPc>>
  /\ ReindexUnchanged

\* return NextResponse.json({ success: true, results })
ReindexRespond ==
  /\ xPc \in {"store", "local"}
  /\ xIdx > Len(xIn.items)
  /\ xPc' = "done"
  /\ UNCHANGED <<xIn, xIdx, xResults>>
  /\ ReindexUnchanged

ReindexNext ==
  \/ ReindexStart
  \/ ReindexStoreItem
  \/ ReindexLocalItem
  \/ ReindexRespond

SpecReindex == ReindexInit /\ [][ReindexNext]_vars

\* the results reported for item i
StatusesOf(i) == {k \in DOMAIN xResults : xResults[k].item = i}

\* C16 as stated: every iterated item has exactly one status, which is
\* 'skipped' with reason 'no_content' when its descriptor yields the
\* sentinel text, and 'failed' or 'updated' otherwise.
C16_Original ==
  \A i \in 1..(xIdx - 1) :
    (xPc \in {"store", "local", "done"} /\ i \in DOMAIN xIn.items) =>
      /\ Cardinality(StatusesOf(i)) = 1
      /\ \A k \in StatusesOf(i) :
           LET info == IF IsSome(xIn.items[i].info) THEN Get(xIn.items[i].info) ELSE NoInfo
           IN IF generateEmbeddingText(info) = Sentinel
              THEN xResults[k].status = "skipped" /\ xResults[k].reason = "no_content"
              ELSE xResults[k].status \in {"failed", "updated"}

(***************************************************************************)
(* The keyword scores of stage 2 and of the store keyword fallback, over   *)
(* every combination of matched fields.                                    *)
(***************************************************************************)
FieldCount == 12

ScoreInit ==
  /\ kM \in [1..FieldCount -> BOOLEAN]
  /\ kOut = None
  /\ CosineIdle
  /\ TextIdle
  /\ RecIdle
  /\ SearchIdle
  /\ EmbedIdle
  /\ ReindexIdle
  /\ MoreIdle

\* both stages score a row with the field matches kM
ScoreBothStages ==
  /\ kOut = None
  /\ kOut' = Some([stage2 |-> Stage2Score(kM), stage3 |-> FallbackScore(kM)])
  /\ UNCHANGED <<kM, cosineVars, textVars, recVars, searchVars, embedVars, reindexVars,
                 moreVars>>

ScoreNext == ScoreBothStages

SpecScore == ScoreInit /\ [][ScoreNext]_vars

\* C20 as stated: for every combination of matched fields with at least one
\* match, stage 3 assigns the score that stage 2 assigns.
C20_Original ==
  (IsSome(kOut) /\ HasMatch(kM)) => Get(kOut).stage3 = Get(kOut).stage2

\* the field matches kM with one more field matched
WithField(m, i) == [m EXCEPT ![i] = TRUE]

\* the n first fields after the filename are matched, the filename is not
OthersOnly(n) == [j \in 1..FieldCount |-> j > 1 /\ j <= n + 1]

\* C30: for the rule of stage 2 and for the fallback rule, matching one more
\* field never lowers the score, and a set of matches that holds the filename
\* never scores below a set of the same or a smaller size without it.
C30_Original ==
  IsSome(kOut) =>
    /\ \A i \in 1..FieldCount :
         /\ Stage2Score(WithField(kM, i)) >= Get(kOut).stage2
         /\ FallbackScore(WithField(kM, i)) >= Get(kOut).stage3
    /\ kM[1] =>
         \A n \in 1..Min(MatchCount(kM), FieldCount - 1) :
           /\ Get(kOut).stage2 >= Stage2Score(OthersOnly(n))
           /\ Get(kOut).stage3 >= FallbackScore(OthersOnly(n))

(***************************************************************************)
(* Ingestion of one item of a configured store: the upload, reprocess,     *)
(* reindex and recommend requests about it, and the embedding tasks that   *)
(* upload and reprocess start in the background                            *)
(* (processAndStoreEmbedding) or reindex runs in its loop.                 *)
(***************************************************************************)
MaxRequests == 3

\* what processFile may return for the item
IngestInfos == {RI_doc2, RI_doc, RI_emptySummary}

\* a task holds the descriptor it was started with
Task(kind, info) == [kind |-> kind, info |-> info, pc |-> "generate", embedding |-> None]

RemoveAt(seq, k) == SubSeq(seq, 1, k - 1) \o SubSeq(seq, k + 1, Len(seq))

IngestInit ==
  /\ iInfo = None
  /\ iEmbedding = None
  /\ iTasks = <<>>
  /\ iTexts = {}
  /\ iRequests = 0
  /\ PipelineIdle
  /\ ReadIdle
  /\ CosineIdle
  /\ TextIdle
  /\ RecIdle
  /\ SearchIdle
  /\ EmbedIdle
  /\ ReindexIdle
  /\ ScoreIdle

IngestUnchanged ==
  UNCHANGED <<cosineVars, textVars, recVars, searchVars, embedVars, reindexVars, scoreVars,
              pipelineVars, readVars>>

\* POST /api/upload: the row is inserted with the descriptor and the
\* background task is started
Upload ==
  /\ iInfo = None
  /\ iRequests < MaxRequests
  /\ \E info \in IngestInfos :
       /\ iInfo' = Some(info)
       /\ iTasks' = Append(iTasks, Task("upload", info))
  /\ iRequests' = iRequests + 1
  /\ UNCHANGED <<iEmbedding, iTexts>>
  /\ IngestUnchanged

\* POST /api/reprocess: update({ info }).eq('filename', filename), then the
\* background task is started
Reprocess ==
  /\ IsSome(iInfo)
  /\ iRequests < MaxRequests
  /\ \E info \in IngestInfos :
       /\ iInfo' = Some(info)
       /\ iTasks' = Append(iTasks, Task("reprocess", info))
  /\ iRequests' = iRequests + 1
  /\ UNCHANGED <<iEmbedding, iTexts>>
  /\ IngestUnchanged

\* POST /api/reindex: the rows are read; the loop then works on the
\* descriptor it read
ReindexRead ==
  /\ IsSome(iInfo)
  /\ iRequests < MaxRequests
  /\ iTasks' = Append(iTasks, Task("reindex", Get(iInfo)))
  /\ iRequests' = iRequests + 1
  /\ UNCHANGED <<iInfo, iEmbedding, iTexts>>
  /\ IngestUnchanged

\* generateEmbeddingText, the sentinel test and await generateEmbedding
TaskGenerate ==
  \E k \in DOMAIN iTasks :
    /\ iTasks[k].pc = "generate"
    /\ IF NoContent(iTasks[k].info)
       THEN /\ iTasks' = RemoveAt(iTasks, k)
            /\ UNCHANGED iTexts
       ELSE /\ iTexts' = iTexts \cup {generateEmbeddingText(iTasks[k].info)}
            /\ \E embedding \in GeneratedValues :
                 iTasks' = IF ~IsSome(embedding) \/ Len(Get(embedding)) = 0
                           THEN RemoveAt(iTasks, k)
                           ELSE [iTasks EXCEPT ![k].pc = "store", ![k].embedding = embedding]
    /\ UNCHANGED <<iInfo, iEmbedding, iRequests>>
    /\ IngestUnchanged

\* storeEmbeddingInDB(filename, embedding)
TaskStore ==
  \E k \in DOMAIN iTasks, updateOk \in BOOLEAN :
    /\ iTasks[k].pc = "store"
    /\ iEmbedding' = IF storeEmbeddingInDB(iTasks[k].embedding, TRUE, updateOk)
                     THEN Some([text |-> generateEmbeddingText(iTasks[k].info),
                                vector |-> Get(iTasks[k].embedding)])
                     ELSE iEmbedding
    /\ iTasks' = RemoveAt(iTasks, k)
    /\ UNCHANGED <<iInfo, iTexts, iRequests>>
    /\ IngestUnchanged

\* the files GET /api/recommend loads: the item and another, embedded, file
IngestFiles ==
  FromDb(<<[filename |-> 1, info |-> iInfo,
            embedding |-> IF IsSome(iEmbedding) THEN Some(Get(iEmbedding).vector) ELSE None],
           [filename |-> 2, info |-> Some(RI_doc2), embedding |-> Some(<<1, 0>>)]>>)

\* GET /api/recommend?file=item: recommendFiles embeds the target's text
\* when it awaits generateEmbedding
RecommendItem ==
  /\ IsSome(iInfo)
  /\ iRequests < MaxRequests
  /\ iTexts' = IF AwaitsGeneration(IngestFiles, Some(IngestFiles[1]), TRUE)
               THEN iTexts \cup {generateEmbeddingText(Get(IngestFiles[1].info))}
               ELSE iTexts
  /\ iRequests' = iRequests + 1
  /\ UNCHANGED <<iInfo, iEmbedding, iTasks>>
  /\ IngestUnchanged

IngestNext ==
  \/ Upload
  \/ Reprocess
  \/ ReindexRead
  \/ TaskGenerate
  \/ TaskStore
  \/ RecommendItem

SpecIngest == IngestInit /\ [][IngestNext]_vars

\* C26: the sentinel text (and the empty text) is never passed to
\* generateEmbedding by ingestion, reprocess, reindex or recommend.
C26_SentinelNeverEmbedded == Sentinel \notin iTexts /\ <<>> \notin iTexts

\* an item whose descriptor yields the sentinel went through its task and a
\* recommend request, and nothing was embedded
C26_Witness ==
  /\ iInfo = Some(RI_emptySummary)
  /\ iTasks = <<>>
  /\ iRequests = 2
  /\ iTexts = {}

\* C28 as stated: when no task is in progress, the stored embedding of the
\* item is one generated from its stored descriptor.
C28_Original ==
  (iTasks = <<>> /\ IsSome(iInfo) /\ IsSome(iEmbedding)) =>
    Get(iEmbedding).text = generateEmbeddingText(Get(iInfo))

\* ---------------------------------------------------------------------------
\* The on-device pipelines: generateEmbeddingOnDevice and summarizeOnDevice
\* called by concurrent requests of one process.  A request runs until its
\* next await; the awaited import and the awaited pipeline(...) resolve or
\* reject in any order.
\* ---------------------------------------------------------------------------

MaxCallers == 3

PipelineKinds == {"embed", "summarize"}

\* the number of models tried in order: modelName and the fallback for the
\* embedder, the three candidates for the summarizer
Candidates(kind) == IF kind = "embed" THEN 2 ELSE 3

Caller(kind) == [kind |-> kind, pc |-> "import", cand |-> 0, used |-> 0]

PipelineInit ==
  /\ PipelineIdle
  /\ IngestIdle
  /\ ReadIdle
  /\ CosineIdle
  /\ TextIdle
  /\ RecIdle
  /\ SearchIdle
  /\ EmbedIdle
  /\ ReindexIdle
  /\ ScoreIdle

PipelineUnchanged ==
  UNCHANGED <<cosineVars, textVars, recVars, searchVars, embedVars, reindexVars, scoreVars,
              ingestVars, readVars>>

\* a request enters generateEmbeddingOnDevice or summarizeOnDevice and waits
\* for `await import('@xenova/transformers')`
OnDeviceCall ==
  /\ Len(pPc) < MaxCallers
  /\ \E kind \in PipelineKinds : pPc' = Append(pPc, Caller(kind))
  /\ UNCHANGED <<pCache, pLoads>>
  /\ PipelineUnchanged

\* the import resolved: the summarizer tests `!_summarizer` and either goes on
\* to use the cached instance or starts to load the first candidate; the
\* embedder has no cache and always starts to load
Imported ==
  /\ \E k \in 1..Len(pPc) :
       /\ pPc[k].pc = "import"
       /\ pPc' = [pPc EXCEPT ![k] =
                    IF pPc[k].kind = "summarize" /\ pCache # 0
                    THEN [@ EXCEPT !.pc = "run", !.used = pCache]
                    ELSE [@ EXCEPT !.pc = "load", !.cand = 1]]
  /\ UNCHANGED <<pCache, pLoads>>
  /\ PipelineUnchanged

\* `await pipeline(...)` resolved with a new instance: the summarizer stores
\* it in _summarizer, the embedder in its local `embedder`; the request goes on
\* to run the instance
Loaded ==
  /\ \E k \in 1..Len(pPc) :
       LET kind == pPc[k].kind
           inst == pLoads[kind] + 1
       IN /\ pPc[k].pc = "load"
          /\ pLoads' = [pLoads EXCEPT ![kind] = inst]
          /\ pCache' = IF kind = "summarize" THEN inst ELSE pCache
          /\ pPc' = [pPc EXCEPT ![k] = [@ EXCEPT !.pc = "run", !.used = inst]]
  /\ PipelineUnchanged

\* `await pipeline(...)` rejected: the summarizer resets _summarizer to null
\* and tries the next candidate, or throws after the last; the embedder tries
\* the fallback model, or returns null after it
LoadFailed ==
  /\ \E k \in 1..Len(pPc) :
       LET kind == pPc[k].kind
       IN /\ pPc[k].pc = "load"
          /\ pCache' = IF kind = "summarize" THEN 0 ELSE pCache
          /\ pPc' = [pPc EXCEPT ![k] =
                       IF pPc[k].cand < Candidates(kind)
                       THEN [@ EXCEPT !.cand = @ + 1]
                       ELSE [@ EXCEPT !.pc = "failed"]]
  /\ UNCHANGED pLoads
  /\ PipelineUnchanged

\* the instance returned its output
RunDone ==
  /\ \E k \in 1..Len(pPc) :
       /\ pPc[k].pc = "run"
       /\ pPc' = [pPc EXCEPT ![k] = [@ EXCEPT !.pc = "done"]]
  /\ UNCHANGED <<pCache, pLoads>>
  /\ PipelineUnchanged

PipelineNext ==
  \/ OnDeviceCall
  \/ Imported
  \/ Loaded
  \/ LoadFailed
  \/ RunDone

SpecPipeline == PipelineInit /\ [][PipelineNext]_vars

\* C27: each on-device pipeline is created at most once per process, and all
\* the requests that ran a pipeline of one kind ran the same instance, whatever
\* the interleaving of the concurrent first uses.
C27_Original ==
  /\ \A kind \in PipelineKinds : pLoads[kind] <= 1
  /\ \A j, k \in 1..Len(pPc) :
       (pPc[j].kind = pPc[k].kind /\ pPc[j].used # 0 /\ pPc[k].used # 0) =>
         pPc[j].used = pPc[k].used

\* ---------------------------------------------------------------------------
\* The two store reads of one search request, stages 1 and 2, and the
\* embedding writes of background tasks that land between them.
\* ---------------------------------------------------------------------------

\* the filenames of the rows of a store are distinct
DistinctFilenames(store) ==
  \A i, j \in DOMAIN store : store[i].filename = store[j].filename => i = j

Filenames(files) == {files[i].filename : i \in DOMAIN files}

ReadInit ==
  /\ qStore \in {store \in Stores : DistinctFilenames(store)}
  /\ qPc = "stage1"
  /\ qWrites = 0
  /\ qSeen1 = None
  /\ qSeen2 = None
  /\ IngestIdle
  /\ PipelineIdle
  /\ CosineIdle
  /\ TextIdle
  /\ RecIdle
  /\ SearchIdle
  /\ EmbedIdle
  /\ ReindexIdle
  /\ ScoreIdle

ReadUnchanged ==
  UNCHANGED <<cosineVars, textVars, recVars, searchVars, embedVars, reindexVars, scoreVars,
              ingestVars, pipelineVars>>

\* .not('embedding', 'is', null).limit(200): stage 2 follows only when rows
\* were returned
ReadWithEmbedding ==
  /\ qPc = "stage1"
  /\ \E outcome \in {"data", "error"} :
       LET files == RowsWithEmbedding(qStore)
       IN IF outcome = "data" /\ files # <<>>
          THEN qSeen1' = Some(Filenames(files)) /\ qPc' = "stage2"
          ELSE qSeen1' = None /\ qPc' = "stage3"
  /\ UNCHANGED <<qStore, qWrites, qSeen2>>
  /\ ReadUnchanged

\* storeEmbeddingInDB of a background task: update({embedding}).eq('filename',
\* filename) on a row that had none
EmbeddingWrite ==
  /\ qPc = "stage2"
  /\ qWrites < MaxWrites
  /\ \E i \in DOMAIN qStore :
       /\ ~IsSome(qStore[i].embedding)
       /\ qStore' = [j \in DOMAIN qStore |->
                       IF qStore[j].filename = qStore[i].filename
                       THEN [qStore[j] EXCEPT !.embedding = Some(<<1, 0>>)]
                       ELSE qStore[j]]
  /\ qWrites' = qWrites + 1
  /\ UNCHANGED <<qPc, qSeen1, qSeen2>>
  /\ ReadUnchanged

\* .is('embedding', null).limit(50)
ReadWithoutEmbedding ==
  /\ qPc = "stage2"
  /\ \E outcome \in {"data", "error"} :
       qSeen2' = IF outcome = "data"
                 THEN Some(Filenames(RowsWithoutEmbedding(qStore))) ELSE None
  /\ qPc' = "done"
  /\ UNCHANGED <<qStore, qWrites, qSeen1>>
  /\ ReadUnchanged

ReadNext ==
  \/ ReadWithEmbedding
  \/ EmbeddingWrite
  \/ ReadWithoutEmbedding

SpecReads == ReadInit /\ [][ReadNext]_vars

\* C29: when both reads of a search returned, every row of the table (fewer
\* than either page) was returned by exactly one of them, also when an
\* embedding was written for the row between the reads.
C29_Original ==
  (qPc = "done" /\ IsSome(qSeen1) /\ IsSome(qSeen2)) =>
    \A i \in DOMAIN qStore :
      (qStore[i].filename \in Get(qSeen1)) # (qStore[i].filename \in Get(qSeen2))

====
